---- MODULE Spec2Model ----
(***************************************************************************)
(* TaskKit: the task/promise state machine, the per-thread scheduler and   *)
(* the combinators built on them, as a state machine.                      *)
(*                                                                         *)
(* A coroutine frame is an address in Addr.  The calling thread's C++ call *)
(* stack of coroutine activations is `stack`: calling a coroutine function *)
(* pushes its frame (initial_suspend is suspend_never), a suspension pops  *)
(* it, and symmetric transfer at final suspension replaces the top.  The   *)
(* host program (the driver) calls coroutine functions, Forget(), the      *)
(* Task destructor and UpdateActivatedScheduler() when no coroutine runs.  *)
(***************************************************************************)
EXTENDS Integers, Sequences, FiniteSets, TLC

\* Bounds of the model: coroutine frames ever created, yields of a user
\* task, the argument of DelayFrame, yields of an awaiting task before its
\* co_await, tasks given to WhenAll, Update() calls, coroutine functions
\* the host calls, and awaiting tasks among them.
MaxFrames == 4
MaxYields == 2
MaxDelay == 2
MaxPre == 1
MaxTasks == 2
MaxUpdates == 3
MaxSpawns == 2
MaxAwaiters == 1
MaxAddr == 6
MaxDuration == 2
MaxNow == 3
MaxRegs == 2
MaxDepth == 3
MaxSchedulers == 2
threadCount == 2
MaxCallers == 2
MaxHandles == 3
SlabBlockCount == 2
MaxBuckets == 2
MaxLive == 3
MaxFreeThreads == 1
MaxAllocs == 5

\* Bounds of the frame-memory model: coroutine frames allocated, and calls
\* of Initialize.
MaxMem == 3
MaxInits == 2

\* RemoteNode objects the heap has room for at a time.
MaxNodes == 3

\* The history counts Schedule calls and resumptions up to MaxSeq; only a
\* host that goes on calling Update() beyond MaxUpdates gets that far.
MaxSeq == 24

\* TaskSystem::Initialize creates one default scheduler and activates it.
NumSchedulers == 1

Schedulers == 1..NumSchedulers
Addr == 1..MaxAddr
NullHandle == 0

\* The threads that own schedulers: here the main thread only.
MainThread == "main"
Threads == {MainThread}
SchedulerIds == Threads \X Schedulers

(***************************************************************************)
(* Programs: the coroutine bodies the host can start.                      *)
(*   user    a task that yields n times, then returns its value or throws  *)
(*   delay   DelayFrame(n, stopToken)                                      *)
(*   awaiter a task that yields n times, calls its sub-task and awaits it  *)
(*   whenall WhenAll over args (variant: vector, fold (all void), tuple)   *)
(***************************************************************************)
Prog(type, n, ends, variant, order, args) ==
    [type |-> type, n |-> n, ends |-> ends, variant |-> variant,
     order |-> order, args |-> args]

NoProg == Prog("none", 0, "-", "-", "-", <<>>)

UserTasks == {Prog("user", n, e, "-", "-", <<>>) :
                 n \in 0..MaxYields, e \in {"value", "throw"}}

\* DelayFrame is given the stop_token of the host's stop_source.
DelayFrames == {Prog("delay", n, "-", "-", "-", <<>>) : n \in (-1)..MaxDelay}

LeafProgs == UserTasks \cup DelayFrames

\* WhenAll(std::vector<Task<>>), WhenAll(Task<void>&&...) (a fold over the
\* comma operator) and WhenAll(Task<Results>&&...) (a tuple).  order: the
\* order in which the build evaluates function arguments, which C++ leaves
\* unspecified: that of the calls that create the argument tasks and, for
\* the tuple, of the co_await operands of std::make_tuple.
WhenAllArgs == UNION {[1..k -> UserTasks] : k \in 0..MaxTasks}

WhenAllProgs ==
    {q \in {Prog("whenall", 0, "-", v, o, a) :
                v \in {"vector", "fold", "tuple"}, o \in {"ltr", "rtl"},
                a \in WhenAllArgs} :
        /\ q.variant = "vector" => q.order = "ltr"
        /\ q.variant # "vector" => Len(q.args) >= 1
        /\ Len(q.args) <= 1 => q.order = "ltr"}

AwaiterProgs ==
    {Prog("awaiter", n, "-", "-", "-", <<q>>) : n \in 0..MaxPre, q \in LeafProgs}
    \cup {Prog("awaiter", 0, "-", "-", "-", <<q>>) : q \in WhenAllProgs}

\* WhenAny(t1, t2) of user tasks; order: the order in which the build
\* evaluates the arguments of the call.
WhenAnyProgs ==
    {Prog("whenany", 0, "-", "-", o, args) :
        o \in {"ltr", "rtl"}, args \in [1..MaxTasks -> UserTasks]}

\* The coroutines WhenAny creates: one WhenAnyHelperTask<I> for each task.
HelperProg == Prog("helper", 0, "-", "-", "-", <<>>)

\* WaitFor(d, token) and WaitUntil(tp, token), in ticks of the clock.
WaitFors == {Prog("waitfor", d, "-", "-", "-", <<>>) : d \in 0..MaxDuration}

WaitUntils == {Prog("waituntil", tp, "-", "-", "-", <<>>) : tp \in 0..MaxDuration}

WaitProgs == DelayFrames \cup WaitFors \cup WaitUntils

\* A sub-task call whose arguments are task calls.
HasArgs(p) == p.type \in {"whenall", "whenany"}

VARIABLES
    threadContexts_,  \* TaskSchedulerManager: thread -> [internalIdStack, schedulers]
    frame,            \* Addr -> the coroutine frame (program, position, locals)
    result_,          \* Addr -> PromiseBase::result_
    continuation_,    \* Addr -> Promise::continuation_
    isForgotten_,     \* Addr -> Promise::isForgotten_
    nextFrame,        \* the next address the allocator hands out
    stack,            \* thread -> call stack of running coroutine activations
    driver,           \* the host program on the main thread
    stopRequested,    \* the host's stop_source
    ub,               \* undefined behaviour has been executed
    updateCount,      \* history: scheduler id -> number of Update() calls begun
    hist,             \* history: Addr -> what happened to the frame and when
    drain,            \* history: the running (or last) Update() call
    schedSeq,         \* history: number of Schedule() calls so far
    now,              \* the reading of std::chrono::steady_clock
    pool,             \* the ThreadPool and its worker threads
    taskSystem,       \* TaskSystem: thread -> ThreadState, the registrations, and
                      \* whether the last call reported an error
    allocator         \* PoolAllocator: one thread's ThreadLocalPool and its users

vars == <<threadContexts_, frame, result_, continuation_, isForgotten_, nextFrame,
          stack, driver, stopRequested, ub, updateCount, hist, drain, schedSeq,
          now, pool, taskSystem, allocator>>

(***************************************************************************)
(* TaskScheduler                                                           *)
(***************************************************************************)
\* TaskScheduler(reservedTaskCount, ownerId): empty queues.
NewScheduler(owner) ==
    [ownerId_ |-> owner, handles_ |-> <<>>, updateHandles_ |-> <<>>,
     remoteHead_ |-> <<>>]

\* A faulty PushRemote: the new head is not linked to the old one.
PushRemote_Unlinked(sch, handle) ==
    [sch EXCEPT !.remoteHead_ = <<handle>>]

\* PushRemote: the new node becomes the head of the remote list.
PushRemote(sch, handle) ==
    [sch EXCEPT !.remoteHead_ = <<handle>> \o @]

\* CollectRemote: take the whole list, append its nodes from the head on.
CollectRemote(sch) ==
    [sch EXCEPT !.handles_ = @ \o sch.remoteHead_, !.remoteHead_ = <<>>]

\* A faulty Schedule: the owner puts the handle at the front of handles_.
Schedule_Front(sch, thread, handle) ==
    IF thread = sch.ownerId_
    THEN [sch EXCEPT !.handles_ = <<handle>> \o @]
    ELSE PushRemote(sch, handle)

\* A faulty Schedule: every thread appends to handles_.
Schedule_Local(sch, thread, handle) ==
    [sch EXCEPT !.handles_ = Append(@, handle)]

\* Schedule: the owner appends to handles_, any other thread pushes remotely.
Schedule(sch, thread, handle) ==
    IF thread = sch.ownerId_
    THEN [sch EXCEPT !.handles_ = Append(@, handle)]
    ELSE PushRemote(sch, handle)

\* A faulty Update: updateHandles_ is a copy of handles_, which keeps its
\* handles.
UpdateSwap_Copy(sch) ==
    LET c == CollectRemote(sch)
    IN  [c EXCEPT !.updateHandles_ = c.handles_]

\* Update, up to its loop: CollectRemote, then swap the two vectors.
UpdateSwap(sch) ==
    LET c == CollectRemote(sch)
    IN  [c EXCEPT !.updateHandles_ = c.handles_, !.handles_ = c.updateHandles_]

\* Update, after its loop: updateHandles_.clear().
UpdateClear(sch) ==
    [sch EXCEPT !.updateHandles_ = <<>>]

\* A faulty GetPendingTaskCount: the remote list is not counted.
GetPendingTaskCount_LocalOnly(sch) ==
    Len(sch.handles_)

\* GetPendingTaskCount: handles_.size() plus the length of the remote list.
GetPendingTaskCount(sch) ==
    Len(sch.handles_) + Len(sch.remoteHead_)

(***************************************************************************)
(* TaskSchedulerManager                                                    *)
(***************************************************************************)
\* ThrowIfNoActiveScheduler's condition.
HasActiveScheduler(t) ==
    threadContexts_[t].internalIdStack # <<>>

\* GetActivatedSchedulerId: (this thread, top of its activation stack).
GetActivatedSchedulerId(t) ==
    LET st == threadContexts_[t].internalIdStack
    IN  <<t, st[Len(st)]>>

GetScheduler(id) ==
    threadContexts_[id[1]].schedulers[id[2]]

\* TaskSchedulerManager::Schedule(id, handle), called by thread t.
ManagerSchedule(t, id, handle) ==
    [threadContexts_ EXCEPT ![id[1]].schedulers[id[2]] = Schedule(@, t, handle)]

(***************************************************************************)
(* PromiseBase and Task<T>::Promise                                        *)
(***************************************************************************)
\* result_: empty, a value (a tuple of integers: <<>> for void, <<v>> for an
\* int, one component per task for WhenAll's tuple) or a captured exception.
Empty == [kind |-> "empty", val |-> <<>>]
Value(v) == [kind |-> "value", val |-> v]
\* A captured exception: its type (a user error or OperationStoppedError) and
\* the identity of the exception object (the frame that threw it).
Failure(kind, origin) == [kind |-> kind, val |-> <<origin>>]

IsFailure(r) == r.kind \in {"failure", "stopped"}

\* PromiseBase::return_value / return_void: result_ = value.
return_value(v) == Value(v)

\* A faulty unhandled_exception: the exception is not stored.
unhandled_exception_Lost(e) == Empty

\* PromiseBase::unhandled_exception: result_ = std::current_exception().
unhandled_exception(e) == e

\* PromiseBase::IsReady: result_.has_value().
IsReady(f) == result_[f].kind # "empty"

\* Promise::GetContinuation: continuation_, or the no-op coroutine.
GetContinuation(f) == continuation_[f]

\* A faulty await_suspend: the continuation goes into the promise of the
\* awaiting coroutine.
SetContinuation_Self(task, h) == [continuation_ EXCEPT ![h] = task]

\* Promise::SetContinuation, as Awaiter::await_suspend calls it.
SetContinuation(task, h) == [continuation_ EXCEPT ![task] = h]

\* A faulty initial_suspend: suspend_always.
InitialSuspend_Always == FALSE

\* Promise::initial_suspend returns suspend_never: its await_ready is true.
InitialSuspendReady == TRUE


\* Task::Forget on a non-null handle: destroy a ready frame, else mark it.
Forget(f) ==
    IF IsReady(f)
    THEN [destroy |-> TRUE, mark |-> FALSE]
    ELSE [destroy |-> FALSE, mark |-> TRUE]

\* A faulty FinalAwaiter::await_suspend: isForgotten_ is not looked at.
FinalAwaitSuspend_Keep(f) ==
    [destroy |-> FALSE, next |-> GetContinuation(f)]

\* FinalAwaiter::await_suspend: a forgotten frame destroys itself and the
\* no-op coroutine is resumed; else control transfers to the continuation.
FinalAwaitSuspend(f) ==
    IF isForgotten_[f]
    THEN [destroy |-> TRUE, next |-> NullHandle]
    ELSE [destroy |-> FALSE, next |-> GetContinuation(f)]

\* A faulty await_ready: the awaiter always suspends.
await_ready_Never(task) == FALSE

\* Awaiter::await_ready: the awaited task's promise is ready.
await_ready(task) == IsReady(task)

\* A faulty await_resume: a captured exception is not rethrown.
await_resume_Swallow(task) ==
    IF IsFailure(result_[task]) THEN Value(<<>>) ELSE result_[task]

\* Awaiter::await_resume: PromiseBase::Get() of the awaited task, a value
\* returned or the captured exception rethrown.
await_resume(task) == result_[task]

(***************************************************************************)
(* Coroutine frames                                                        *)
(***************************************************************************)
NoFrame ==
    [prog |-> NoProg, pc |-> "none", status |-> "free", alive |-> FALSE,
     i |-> 0, frameCount |-> 0, tasks |-> <<>>, sub |-> NullHandle, cur |-> 1,
     acc |-> <<>>, owned |-> {}, creator |-> NullHandle]

\* The frame of a coroutine function just called: the body starts at once
\* unless initial_suspend suspends.
NewFrame(p, creator, tasks, owned) ==
    [prog |-> p, pc |-> "body",
     status |-> IF InitialSuspendReady THEN "running" ELSE "suspended",
     alive |-> TRUE, i |-> 0, frameCount |-> p.n, tasks |-> tasks,
     sub |-> NullHandle, cur |-> 1, acc |-> <<>>, owned |-> owned,
     creator |-> creator]

\* The call stack of thread t after it called the coroutine function of a.
Call(t, a) ==
    IF InitialSuspendReady THEN [stack EXCEPT ![t] = Append(@, a)] ELSE stack

Pop(st) == SubSeq(st, 1, Len(st) - 1)

Running(t, f) ==
    /\ driver.pc # "crashed"
    /\ stack[t] # <<>>
    /\ stack[t][Len(stack[t])] = f

\* handle.destroy() on the frames of S: each frame's Task objects are
\* destroyed with it, and these destroy the frames they own.
RECURSIVE OwnedClosure(_, _)
OwnedClosure(F, S) ==
    LET next == S \cup UNION {F[g].owned : g \in S}
    IN  IF next = S THEN S ELSE OwnedClosure(F, next)

Destroy(F, S) ==
    LET gone == OwnedClosure(F, S)
    IN  [a \in Addr |->
            IF a \in gone
            THEN [F[a] EXCEPT !.alive = FALSE, !.status = "destroyed", !.owned = {}]
            ELSE [F[a] EXCEPT !.owned = @ \ gone]]

\* Destroying a frame that is already destroyed is undefined behaviour.
DoubleDestroy(F, S) ==
    \E a \in OwnedClosure(F, S) : ~F[a].alive

\* History of a frame.  Times are numbers of Update() calls begun on the
\* frame's home scheduler (the one activated when it was created).
NoHist ==
    [home |-> <<MainThread, 1>>, bornAt |-> 0, doneAt |-> -1, doneIn |-> FALSE,
     killed |-> FALSE, destroyCount |-> 0, resumes |-> 0, stamp |-> 0,
     delivered |-> 0, got |-> Empty, awaiter |-> NullHandle,
     awaitAt |-> -1, awaitIn |-> FALSE, awaitReady |-> FALSE, parked |-> FALSE,
     resumedAt |-> -1, resumedIn |-> FALSE, last |-> NullHandle,
     forgot |-> "no", doneSeq |-> 0]

InUpdate == driver.pc = "update"

Born(H, a, t) ==
    [H EXCEPT ![a] = [NoHist EXCEPT
        !.home = GetActivatedSchedulerId(t),
        !.bornAt = updateCount[GetActivatedSchedulerId(t)]]]

Destroyed(H, F, S) ==
    [a \in Addr |->
        IF a \in OwnedClosure(F, S)
        THEN [H[a] EXCEPT !.destroyCount = @ + 1,
                          !.killed = @ \/ result_[a].kind = "empty"]
        ELSE H[a]]

Finished(H, f) ==
    [H EXCEPT ![f].doneAt = updateCount[H[f].home], ![f].doneIn = InUpdate,
              ![f].doneSeq = 1 + Cardinality({a \in Addr : IsReady(a)})]

(***************************************************************************)
(* Steps of a running coroutine                                            *)
(***************************************************************************)
\* The history's count after one more.
Counted(n) == IF n < MaxSeq THEN n + 1 ELSE n

\* co_yield {}: yield_value schedules this handle on the activated scheduler
\* of the running thread and the coroutine suspends.  F: the frames, with
\* f's locals as they are at the suspension.
CoYield(t, f, F) ==
    /\ threadContexts_' = ManagerSchedule(t, GetActivatedSchedulerId(t), f)
    /\ frame' = [F EXCEPT ![f].status = "suspended"]
    /\ stack' = [stack EXCEPT ![t] = Pop(@)]
    /\ schedSeq' = Counted(schedSeq)
    /\ hist' = [hist EXCEPT ![f].stamp = Counted(schedSeq)]
    /\ UNCHANGED <<result_, continuation_, isForgotten_, nextFrame, driver,
                   stopRequested, ub, updateCount, drain>>

\* co_return or an exception leaving the body: the promise stores r, then
\* the coroutine goes on to final_suspend.  F, H, U: frames, history and ub
\* after what the body did before.
Complete(f, F, H, U, r) ==
    /\ result_' = [result_ EXCEPT ![f] = r]
    /\ frame' = [F EXCEPT ![f].pc = "final"]
    /\ hist' = Finished(H, f)
    /\ ub' = U
    /\ UNCHANGED <<threadContexts_, continuation_, isForgotten_, nextFrame, stack,
                   driver, stopRequested, updateCount, drain, schedSeq>>

\* A user task: n yields, then co_return of its value (its own address, so
\* that values tell tasks apart) or a throw.
UserTask(t, f) ==
    /\ Running(t, f)
    /\ frame[f].prog.type = "user"
    /\ frame[f].pc = "body"
    /\ IF frame[f].i < frame[f].prog.n
       THEN CoYield(t, f, [frame EXCEPT ![f].i = @ + 1])
       ELSE Complete(f, frame, hist, ub,
                     IF frame[f].prog.ends = "value"
                     THEN return_value(<<f>>)
                     ELSE unhandled_exception(Failure("failure", f)))
    /\ UNCHANGED <<now, pool, taskSystem, allocator>>

\* ThrowIfStopRequested never throwing.
ThrowIfStopRequested_Never == FALSE

\* ThrowIfStopRequested(stopToken) throws: the host requested the stop.
ThrowIfStopRequested == stopRequested

\* A faulty condition: frameCount >= 0.
DelayCondition_Inclusive(frameCount) == frameCount >= 0

\* The condition of DelayFrame's if and of its while: frameCount > 0.
DelayCondition(frameCount) == frameCount > 0

\* DelayFrame(frameCount, stopToken): the if on entry, the while with its
\* post-decrement, ThrowIfStopRequested before each co_yield and after the
\* loop.
DelayFrame(t, f) ==
    /\ Running(t, f)
    /\ frame[f].prog.type = "delay"
    /\ frame[f].pc \in {"body", "loop"}
    /\ LET enter == frame[f].pc = "loop" \/ DelayCondition(frame[f].frameCount)
           again == enter /\ DelayCondition(frame[f].frameCount)
           F == [frame EXCEPT ![f].frameCount = IF enter THEN @ - 1 ELSE @,
                              ![f].pc = "loop"]
       IN  IF ThrowIfStopRequested
           THEN Complete(f, F, hist, ub, unhandled_exception(Failure("stopped", f)))
           ELSE IF again
           THEN CoYield(t, f, F)
           ELSE Complete(f, F, hist, ub, return_value(<<>>))
    /\ UNCHANGED <<now, pool, taskSystem, allocator>>

\* The loop of WaitFor and of WaitUntil while the clock has not reached the
\* end of the wait (waiting), and the code after it: ThrowIfStopRequested,
\* then co_yield {} or co_return.
WaitStep(t, f, waiting) ==
    IF ThrowIfStopRequested
    THEN Complete(f, frame, hist, ub, unhandled_exception(Failure("stopped", f)))
    ELSE IF waiting
    THEN CoYield(t, f, frame)
    ELSE Complete(f, frame, hist, ub, return_value(<<>>))

\* WaitFor(duration, stopToken): start = steady_clock::now() (kept in i),
\* then while (steady_clock::now() - start < duration).
WaitFor(t, f) ==
    /\ Running(t, f)
    /\ frame[f].prog.type = "waitfor"
    /\ IF frame[f].pc = "body"
       THEN /\ frame' = [frame EXCEPT ![f].i = now, ![f].pc = "loop"]
            /\ UNCHANGED <<threadContexts_, result_, continuation_, isForgotten_,
                           nextFrame, stack, driver, stopRequested, ub,
                           updateCount, hist, drain, schedSeq>>
       ELSE /\ frame[f].pc = "loop"
            /\ WaitStep(t, f, now - frame[f].i < frame[f].prog.n)
    /\ UNCHANGED <<now, pool, taskSystem, allocator>>

\* WaitUntil(timePoint, stopToken): while (Clock::now() < timePoint).
WaitUntil(t, f) ==
    /\ Running(t, f)
    /\ frame[f].prog.type = "waituntil"
    /\ frame[f].pc = "body"
    /\ WaitStep(t, f, now < frame[f].prog.n)
    /\ UNCHANGED <<now, pool, taskSystem, allocator>>

\* The argument tasks of the sub-task call of an awaiter, none created yet.
ArgSlots(p) ==
    IF p.type = "awaiter" /\ HasArgs(p.args[1])
    THEN [j \in 1..Len(p.args[1].args) |-> NullHandle]
    ELSE <<>>

\* An awaiting task, before its co_await: n yields.
AwaiterBody(t, f) ==
    /\ Running(t, f)
    /\ frame[f].prog.type = "awaiter"
    /\ frame[f].pc = "body"
    /\ frame[f].i < frame[f].prog.n
    /\ CoYield(t, f, [frame EXCEPT ![f].i = @ + 1])
    /\ UNCHANGED <<now, pool, taskSystem, allocator>>

\* An awaiting task evaluates the operand of its co_await: it calls the
\* coroutine functions of the argument tasks, in the build's order, and then
\* that of the sub-task.  Each call runs the new coroutine at once.
AwaiterCall(t, f) ==
    /\ Running(t, f)
    /\ frame[f].prog.type = "awaiter"
    /\ \/ frame[f].pc = "body" /\ frame[f].i >= frame[f].prog.n
       \/ frame[f].pc = "args"
    /\ LET sub == frame[f].prog.args[1]
           a == nextFrame
           todo == {j \in DOMAIN frame[f].tasks : frame[f].tasks[j] = NullHandle}
       IN  /\ IF todo # {}
              THEN LET j == IF sub.order = "ltr"
                            THEN CHOOSE x \in todo : \A y \in todo : x <= y
                            ELSE CHOOSE x \in todo : \A y \in todo : x >= y
                   IN  frame' = [frame EXCEPT
                          ![f].pc = "args",
                          ![f].tasks[j] = a,
                          ![f].owned = @ \cup {a},
                          ![a] = NewFrame(sub.args[j], f, <<>>, {})]
              ELSE LET args == {frame[f].tasks[j] : j \in DOMAIN frame[f].tasks}
                       moved == sub.type = "whenall" /\ sub.variant = "vector"
                   IN  frame' = [frame EXCEPT
                          ![f].pc = "await",
                          ![f].sub = a,
                          ![f].owned = IF moved THEN {a} ELSE @ \cup {a},
                          ![a] = NewFrame(sub, f, frame[f].tasks,
                                          IF moved THEN args ELSE {})]
           /\ hist' = Born(hist, a, t)
           /\ stack' = Call(t, a)
           /\ nextFrame' = a + 1
    /\ UNCHANGED <<threadContexts_, result_, continuation_, isForgotten_, driver,
                   stopRequested, ub, updateCount, drain, schedSeq>>
    /\ UNCHANGED <<now, pool, taskSystem, allocator>>

\* co_await task: Awaiter::await_ready, and await_suspend when not ready.
Await(t, f) ==
    /\ Running(t, f)
    /\ frame[f].pc = "await"
    /\ LET task == frame[f].sub
       IN  /\ IF await_ready(task)
              THEN /\ frame' = [frame EXCEPT ![f].pc = "resume"]
                   /\ UNCHANGED <<continuation_, stack>>
              ELSE /\ continuation_' = SetContinuation(task, f)
                   /\ frame' = [frame EXCEPT ![f].pc = "resume",
                                             ![f].status = "suspended"]
                   /\ stack' = [stack EXCEPT ![t] = Pop(@)]
           /\ hist' = [hist EXCEPT ![f].awaitAt = updateCount[hist[f].home],
                                   ![f].awaitIn = InUpdate,
                                   ![f].awaitReady = IsReady(task),
                                   ![f].parked = ~await_ready(task),
                                   ![f].resumedAt = -1,
                                   ![f].last = NullHandle]
    /\ UNCHANGED <<threadContexts_, result_, isForgotten_, nextFrame, driver,
                   stopRequested, ub, updateCount, drain, schedSeq>>
    /\ UNCHANGED <<now, pool, taskSystem, allocator>>

\* History: the awaiter f takes the result of task r in await_resume.
Delivered(H, f, task) ==
    [H EXCEPT ![task].delivered = @ + 1,
              ![task].got = await_resume(task),
              ![task].awaiter = f,
              ![f].last = task,
              ![f].resumedAt = updateCount[H[f].home],
              ![f].resumedIn = InUpdate]

\* An awaiting task resumes from its co_await: await_resume, the end of the
\* full expression (the Awaiter and the argument temporaries are destroyed,
\* and with them the frames they own), then co_return, or the rethrown
\* exception leaves the body.
AwaiterResume(t, f) ==
    /\ Running(t, f)
    /\ frame[f].prog.type = "awaiter"
    /\ frame[f].pc = "resume"
    /\ LET task == frame[f].sub
           r == await_resume(task)
           H == Delivered(hist, f, task)
       IN  Complete(f, Destroy(frame, frame[f].owned),
                    Destroyed(H, frame, frame[f].owned),
                    ub \/ DoubleDestroy(frame, frame[f].owned),
                    IF IsFailure(r) THEN unhandled_exception(r)
                    ELSE return_value(<<>>))
    /\ UNCHANGED <<now, pool, taskSystem, allocator>>

\* A faulty tuple: a default value in place of the task's result.
WhenAllSlot_Default(r) == 0

\* The component of WhenAll's tuple for a task that returned r.
WhenAllSlot(r) == IF r.val = <<>> THEN 0 ELSE r.val[1]

\* A faulty WhenAll: it awaits its tasks from the last to the first.
AwaitPos_Backwards(f) == Len(frame[f].tasks) + 1 - frame[f].cur

\* The position in the argument list of the task WhenAll awaits next.
AwaitPos(f) ==
    IF frame[f].prog.variant = "tuple" /\ frame[f].prog.order = "rtl"
    THEN Len(frame[f].tasks) + 1 - frame[f].cur
    ELSE frame[f].cur

\* WhenAll, at the start and after each co_await that returned: the next
\* co_await (its Awaiter takes the Task over), or the co_return after the
\* last one.  The Awaiters of the fold and of the tuple are temporaries of
\* one full expression: they live until its end.
WhenAll(t, f) ==
    /\ Running(t, f)
    /\ frame[f].prog.type = "whenall"
    /\ frame[f].pc = "body"
    /\ IF frame[f].cur > Len(frame[f].tasks)
       THEN Complete(f, Destroy(frame, frame[f].owned),
                     Destroyed(hist, frame, frame[f].owned),
                     ub \/ DoubleDestroy(frame, frame[f].owned),
                     return_value(IF frame[f].prog.variant = "tuple"
                                  THEN frame[f].acc ELSE <<>>))
       ELSE LET task == frame[f].tasks[AwaitPos(f)]
                c == frame[f].creator
            IN  /\ frame' = [a \in Addr |->
                      IF a = f
                      THEN [frame[f] EXCEPT !.pc = "await", !.sub = task,
                                            !.owned = @ \cup {task}]
                      ELSE IF a = c
                      THEN [frame[c] EXCEPT !.owned = @ \ {task}]
                      ELSE frame[a]]
                /\ UNCHANGED <<threadContexts_, result_, continuation_, isForgotten_,
                               nextFrame, stack, driver, stopRequested, ub,
                               updateCount, hist, drain, schedSeq>>
    /\ UNCHANGED <<now, pool, taskSystem, allocator>>

\* WhenAll resumes from a co_await: await_resume.  A rethrown exception
\* leaves the body (the Awaiters alive are destroyed); a value is kept for
\* the tuple, and the vector's co_await statement ends (its Awaiter is
\* destroyed).
WhenAllResume(t, f) ==
    /\ Running(t, f)
    /\ frame[f].prog.type = "whenall"
    /\ frame[f].pc = "resume"
    /\ LET task == frame[f].sub
           r == await_resume(task)
           H == Delivered(hist, f, task)
           temps == IF frame[f].prog.variant = "vector" THEN {task}
                    ELSE frame[f].owned
       IN  IF IsFailure(r)
           THEN Complete(f, Destroy(frame, temps), Destroyed(H, frame, temps),
                         ub \/ DoubleDestroy(frame, temps), unhandled_exception(r))
           ELSE LET F == [frame EXCEPT
                            ![f].acc = [j \in DOMAIN frame[f].tasks |->
                                           IF j = AwaitPos(f) THEN WhenAllSlot(r)
                                           ELSE IF j \in DOMAIN frame[f].acc
                                                THEN frame[f].acc[j] ELSE 0],
                            ![f].cur = @ + 1,
                            ![f].pc = "body"]
                IN  IF frame[f].prog.variant = "vector"
                    THEN /\ frame' = Destroy(F, {task})
                         /\ hist' = Destroyed(H, F, {task})
                         /\ ub' = (ub \/ DoubleDestroy(F, {task}))
                         /\ UNCHANGED <<threadContexts_, result_, continuation_,
                                        isForgotten_, nextFrame, stack, driver,
                                        stopRequested, updateCount, drain,
                                        schedSeq>>
                    ELSE /\ frame' = F
                         /\ hist' = H
                         /\ UNCHANGED <<threadContexts_, result_, continuation_,
                                        isForgotten_, nextFrame, stack, driver,
                                        stopRequested, ub, updateCount, drain,
                                        schedSeq>>
    /\ UNCHANGED <<now, pool, taskSystem, allocator>>

\* final_suspend: FinalAwaiter::await_suspend.
FinalSuspend(t, f) ==
    /\ Running(t, f)
    /\ frame[f].pc = "final"
    /\ LET fa == FinalAwaitSuspend(f)
           F == [frame EXCEPT ![f].status = "done", ![f].pc = "done"]
       IN  IF fa.destroy
           THEN /\ frame' = Destroy(F, {f})
                /\ hist' = Destroyed(hist, F, {f})
                /\ ub' = (ub \/ DoubleDestroy(F, {f}))
                /\ stack' = [stack EXCEPT ![t] = Pop(@)]
           ELSE IF fa.next = NullHandle
           THEN /\ frame' = F
                /\ stack' = [stack EXCEPT ![t] = Pop(@)]
                /\ UNCHANGED <<hist, ub>>
           ELSE /\ frame' = [F EXCEPT ![fa.next].status = "running"]
                /\ stack' = [stack EXCEPT ![t] = Append(Pop(@), fa.next)]
                /\ ub' = (ub \/ ~frame[fa.next].alive)
                /\ UNCHANGED hist
    /\ UNCHANGED <<threadContexts_, result_, continuation_, isForgotten_, nextFrame,
                   driver, stopRequested, updateCount, drain, schedSeq>>
    /\ UNCHANGED <<now, pool, taskSystem, allocator>>

(***************************************************************************)
(* WhenAny                                                                 *)
(***************************************************************************)
\* A faulty helper: it stores its result whether or not the cell has one.
WhenAnyResult_Overwrite(cell, I, taskResult) == <<I, taskResult.val[1]>>

\* WhenAnyHelperTask<I>, after its co_await: the shared optional takes the
\* index and the value unless it has a value already.
WhenAnyResult(cell, I, taskResult) ==
    IF cell = <<>> THEN <<I, taskResult.val[1]>> ELSE cell

\* WhenAnyHelper<I>: WhenAny calls WhenAnyHelperTask<I>(result, task) for
\* its next task.  The helper's parameter takes the Task over from the
\* caller's temporary, and the helper's body starts with its co_await.
WhenAnyHelper(t, f) ==
    /\ Running(t, f)
    /\ frame[f].prog.type = "whenany"
    /\ frame[f].pc = "body"
    /\ frame[f].cur <= Len(frame[f].tasks)
    /\ LET a == nextFrame
           task == frame[f].tasks[frame[f].cur]
           c == frame[f].creator
       IN  /\ frame' = [b \in Addr |->
                 IF b = f THEN [frame[f] EXCEPT !.pc = "forget", !.sub = a]
                 ELSE IF b = c THEN [frame[c] EXCEPT !.owned = @ \ {task}]
                 ELSE IF b = a
                 THEN [NewFrame(HelperProg, f, <<>>, {task}) EXCEPT
                          !.pc = "await", !.sub = task, !.cur = frame[f].cur]
                 ELSE frame[b]]
           /\ hist' = Born(hist, a, t)
           /\ stack' = Call(t, a)
           /\ nextFrame' = a + 1
    /\ UNCHANGED <<threadContexts_, result_, continuation_, isForgotten_, driver,
                   stopRequested, ub, updateCount, drain, schedSeq, now, pool,
                   taskSystem, allocator>>

\* WhenAnyHelper<I>: .Forget() on the Task of the helper just called.
WhenAnyHelperForget(t, f) ==
    /\ Running(t, f)
    /\ frame[f].prog.type = "whenany"
    /\ frame[f].pc = "forget"
    /\ LET h == frame[f].sub
           fg == Forget(h)
           F == [frame EXCEPT ![f].pc = "body", ![f].cur = @ + 1]
           H == [hist EXCEPT ![h].forgot = IF IsReady(h) THEN "ready" ELSE "pending"]
       IN  /\ IF fg.destroy
              THEN /\ frame' = Destroy(F, {h})
                   /\ hist' = Destroyed(H, F, {h})
                   /\ ub' = (ub \/ DoubleDestroy(F, {h}))
              ELSE /\ frame' = F
                   /\ hist' = H
                   /\ UNCHANGED ub
           /\ isForgotten_' = [isForgotten_ EXCEPT ![h] = @ \/ fg.mark]
    /\ UNCHANGED <<threadContexts_, result_, continuation_, nextFrame, stack,
                   driver, stopRequested, updateCount, drain, schedSeq, now, pool,
                   taskSystem, allocator>>

\* WhenAnyHelperTask<I> resumes from its co_await: await_resume.  A value
\* goes to the shared cell of WhenAny (the helper's creator) and the helper
\* returns; a rethrown exception leaves the body before the cell is looked
\* at.  Either way the Awaiter is destroyed, and with it the task's frame.
WhenAnyHelperTask(t, h) ==
    /\ Running(t, h)
    /\ frame[h].prog.type = "helper"
    /\ frame[h].pc = "resume"
    /\ LET task == frame[h].sub
           y == frame[h].creator
           r == await_resume(task)
           H == Delivered(hist, h, task)
           F == IF IsFailure(r) THEN frame
                ELSE [frame EXCEPT
                         ![y].acc = WhenAnyResult(@, frame[h].cur - 1, r)]
       IN  Complete(h, Destroy(F, {task}), Destroyed(H, F, {task}),
                    ub \/ DoubleDestroy(F, {task}),
                    IF IsFailure(r) THEN unhandled_exception(r)
                    ELSE return_value(<<>>))
    /\ UNCHANGED <<now, pool, taskSystem, allocator>>

\* WhenAny, its helpers called: while (!result->has_value()) co_yield {};
\* then co_return of the cell's value.
WhenAny(t, f) ==
    /\ Running(t, f)
    /\ frame[f].prog.type = "whenany"
    /\ frame[f].pc = "body"
    /\ frame[f].cur > Len(frame[f].tasks)
    /\ IF frame[f].acc = <<>>
       THEN CoYield(t, f, frame)
       ELSE Complete(f, frame, hist, ub, return_value(frame[f].acc))
    /\ UNCHANGED <<now, pool, taskSystem, allocator>>

(***************************************************************************)
(* The host program on the main thread                                     *)
(***************************************************************************)
FramesNeeded(p) ==
    IF p.type = "awaiter"
    THEN 1 + (IF p.args[1].type = "whenall" THEN 1 + Len(p.args[1].args)
              ELSE IF p.args[1].type = "whenany" THEN 1 + 2 * Len(p.args[1].args)
              ELSE 1)
    ELSE 1

RECURSIVE SumOver(_, _)
SumOver(f, S) ==
    IF S = {} THEN 0
    ELSE LET x == CHOOSE y \in S : TRUE IN f[x] + SumOver(f, S \ {x})

\* Frames that the awaiting tasks alive have still to create.
Reserved ==
    SumOver([a \in Addr |->
                IF /\ frame[a].alive
                   /\ frame[a].prog.type = "awaiter"
                   /\ frame[a].pc \in {"body", "args"}
                THEN 1 + Cardinality({j \in DOMAIN frame[a].tasks :
                                         frame[a].tasks[j] = NullHandle})
                ELSE 0], Addr)

TopProgs == LeafProgs \cup AwaiterProgs

\* The host calls a coroutine function; fg: it calls Forget() on the Task
\* returned, else it keeps the Task.  Within the bounds on calls, awaiting
\* tasks and frames.
SpawnWithin(p, fg, limit) ==
    /\ driver.pc = "idle"
    /\ driver.spawns < MaxSpawns
    /\ p.type = "awaiter" =>
          Cardinality({a \in Addr : frame[a].prog.type = "awaiter"}) < MaxAwaiters
    /\ nextFrame - 1 + Reserved + FramesNeeded(p) <= limit
    /\ frame' = [frame EXCEPT ![nextFrame] = NewFrame(p, NullHandle, ArgSlots(p), {})]
    /\ hist' = Born(hist, nextFrame, MainThread)
    /\ stack' = Call(MainThread, nextFrame)
    /\ nextFrame' = nextFrame + 1
    /\ driver' = [driver EXCEPT !.pc = "call", !.forget = fg, !.task = nextFrame,
                                !.spawns = @ + 1]
    /\ UNCHANGED <<threadContexts_, result_, continuation_, isForgotten_,
                   stopRequested, ub, updateCount, drain, schedSeq>>
    /\ UNCHANGED <<now, pool, taskSystem, allocator>>

Spawn(p, fg) == SpawnWithin(p, fg, MaxFrames)

\* Task::Forget() by the host on the Task of frame f.
ForgetEffect(f) ==
    LET fg == Forget(f)
        H == [hist EXCEPT ![f].forgot = IF IsReady(f) THEN "ready" ELSE "pending"]
    IN  /\ IF fg.destroy
           THEN /\ frame' = Destroy(frame, {f})
                /\ hist' = Destroyed(H, frame, {f})
                /\ ub' = (ub \/ DoubleDestroy(frame, {f}))
           ELSE /\ hist' = H
                /\ UNCHANGED <<frame, ub>>
        /\ isForgotten_' = [isForgotten_ EXCEPT ![f] = @ \/ fg.mark]

\* The call returned: the coroutine suspended or completed.
TaskReturned ==
    /\ driver.pc = "call"
    /\ stack[MainThread] = <<>>
    /\ IF driver.forget
       THEN /\ ForgetEffect(driver.task)
            /\ driver' = [driver EXCEPT !.pc = "idle"]
       ELSE /\ driver' = [driver EXCEPT !.pc = "idle", !.held = @ \cup {driver.task}]
            /\ UNCHANGED <<frame, hist, ub, isForgotten_>>
    /\ UNCHANGED <<threadContexts_, result_, continuation_, nextFrame, stack,
                   stopRequested, updateCount, drain, schedSeq>>
    /\ UNCHANGED <<now, pool, taskSystem, allocator>>

\* Forget() on a Task the host kept.
ForgetHeld(f) ==
    /\ driver.pc = "idle"
    /\ f \in driver.held
    /\ ForgetEffect(f)
    /\ driver' = [driver EXCEPT !.held = @ \ {f}]
    /\ UNCHANGED <<threadContexts_, result_, continuation_, nextFrame, stack,
                   stopRequested, updateCount, drain, schedSeq>>
    /\ UNCHANGED <<now, pool, taskSystem, allocator>>

\* ~Task by the host, on a Task it kept and whose coroutine has completed.
DropTask(f) ==
    /\ driver.pc = "idle"
    /\ f \in driver.held
    /\ IsReady(f)
    /\ frame' = Destroy(frame, {f})
    /\ hist' = Destroyed(hist, frame, {f})
    /\ ub' = (ub \/ DoubleDestroy(frame, {f}))
    /\ driver' = [driver EXCEPT !.held = @ \ {f}]
    /\ UNCHANGED <<threadContexts_, result_, continuation_, isForgotten_, nextFrame,
                   stack, stopRequested, updateCount, drain, schedSeq>>
    /\ UNCHANGED <<now, pool, taskSystem, allocator>>

\* stop_source::request_stop() by the host, while a DelayFrame that holds
\* the token is pending.
RequestStop ==
    /\ driver.pc = "idle"
    /\ \E f \in Addr :
          frame[f].alive /\ frame[f].prog.type = "delay" /\ ~IsReady(f)
    /\ ~stopRequested
    /\ stopRequested' = TRUE
    /\ UNCHANGED <<threadContexts_, frame, result_, continuation_, isForgotten_,
                   nextFrame, stack, driver, ub, updateCount, hist, drain, schedSeq>>
    /\ UNCHANGED <<now, pool, taskSystem, allocator>>

TotalUpdates == SumOver(updateCount, SchedulerIds)

\* UpdateActivatedScheduler(): TaskScheduler::Update up to its loop.  The
\* host calls it while handles are pending, MaxUpdates times at most.
UpdateStart(more) ==
    /\ driver.pc = "idle"
    /\ HasActiveScheduler(MainThread)
    /\ LET id == GetActivatedSchedulerId(MainThread)
           sch == UpdateSwap(GetScheduler(id))
       IN  /\ GetPendingTaskCount(GetScheduler(id)) > 0
           /\ IF more THEN TotalUpdates >= MaxUpdates
              ELSE TotalUpdates < MaxUpdates
           /\ threadContexts_' =
                 [threadContexts_ EXCEPT ![id[1]].schedulers[id[2]] = sch]
           /\ driver' = [driver EXCEPT !.pc = "update", !.idx = 1, !.sched = id]
           /\ updateCount' = [updateCount EXCEPT ![id] = IF more THEN @ ELSE @ + 1]
           /\ drain' = [sched |-> id, start |-> sch.updateHandles_,
                        resumed |-> <<>>, stamps |-> <<>>, stamp |-> schedSeq]
    /\ UNCHANGED <<frame, result_, continuation_, isForgotten_, nextFrame, stack,
                   stopRequested, ub, hist, schedSeq>>
    /\ UNCHANGED <<now, pool, taskSystem, allocator>>

\* The host calls Update() while handles are pending, MaxUpdates times.
UpdateBegin == UpdateStart(FALSE)

\* The host goes on calling Update() while handles are pending; the
\* history counts these calls no more.
UpdateOn == UpdateStart(TRUE)

\* The loop of Update: handle.resume() of the next handle of updateHandles_.
UpdateResume ==
    /\ driver.pc = "update"
    /\ stack[MainThread] = <<>>
    /\ driver.idx <= Len(GetScheduler(driver.sched).updateHandles_)
    /\ LET h == GetScheduler(driver.sched).updateHandles_[driver.idx]
       IN  /\ frame[h].alive
           /\ frame' = [frame EXCEPT ![h].status = "running"]
           /\ stack' = [stack EXCEPT ![MainThread] = Append(@, h)]
           /\ hist' = [hist EXCEPT ![h].resumes = Counted(@)]
           /\ drain' = [drain EXCEPT !.resumed = Append(@, h),
                                     !.stamps = Append(@, hist[h].stamp)]
    /\ driver' = [driver EXCEPT !.idx = @ + 1]
    /\ UNCHANGED <<threadContexts_, result_, continuation_, isForgotten_, nextFrame,
                   stopRequested, ub, updateCount, schedSeq>>
    /\ UNCHANGED <<now, pool, taskSystem, allocator>>

\* resume() of a handle whose frame has been destroyed is undefined: the
\* process crashes, or the stale frame runs on from where it was suspended.
UpdateResumeDangling(outcome) ==
    /\ driver.pc = "update"
    /\ stack[MainThread] = <<>>
    /\ driver.idx <= Len(GetScheduler(driver.sched).updateHandles_)
    /\ LET h == GetScheduler(driver.sched).updateHandles_[driver.idx]
       IN  /\ ~frame[h].alive
           /\ ub' = TRUE
           /\ IF outcome = "crash"
              THEN /\ driver' = [driver EXCEPT !.pc = "crashed"]
                   /\ UNCHANGED <<frame, stack, hist, drain>>
              ELSE /\ frame' = [frame EXCEPT ![h].status = "running"]
                   /\ stack' = [stack EXCEPT ![MainThread] = Append(@, h)]
                   /\ hist' = [hist EXCEPT ![h].resumes = @ + 1]
                   /\ drain' = [drain EXCEPT !.resumed = Append(@, h),
                                             !.stamps = Append(@, hist[h].stamp)]
                   /\ driver' = [driver EXCEPT !.idx = @ + 1]
    /\ UNCHANGED <<threadContexts_, result_, continuation_, isForgotten_, nextFrame,
                   stopRequested, updateCount, schedSeq>>
    /\ UNCHANGED <<now, pool, taskSystem, allocator>>

\* The end of Update: updateHandles_.clear().
UpdateEnd ==
    /\ driver.pc = "update"
    /\ stack[MainThread] = <<>>
    /\ driver.idx > Len(GetScheduler(driver.sched).updateHandles_)
    /\ threadContexts_' =
          [threadContexts_ EXCEPT ![driver.sched[1]].schedulers[driver.sched[2]] =
              UpdateClear(@)]
    /\ driver' = [driver EXCEPT !.pc = "idle"]
    /\ UNCHANGED <<frame, result_, continuation_, isForgotten_, nextFrame, stack,
                   stopRequested, ub, updateCount, hist, drain, schedSeq>>
    /\ UNCHANGED <<now, pool, taskSystem, allocator>>

\* No thread pool has been constructed.
NoPool == [running_ |-> FALSE]

\* No PoolAllocator has been constructed.
NoAllocator == [pools |-> <<>>]

\* TaskSystem is not in use.
NoTaskSystem == [state |-> <<>>]

(***************************************************************************)
(* The specification                                                       *)
(***************************************************************************)
Init ==
    /\ threadContexts_ =
          [t \in Threads |->
              [internalIdStack |-> <<1>>,
               schedulers |-> [i \in Schedulers |-> NewScheduler(t)]]]
    /\ frame = [a \in Addr |-> NoFrame]
    /\ result_ = [a \in Addr |-> Empty]
    /\ continuation_ = [a \in Addr |-> NullHandle]
    /\ isForgotten_ = [a \in Addr |-> FALSE]
    /\ nextFrame = 1
    /\ stack = [t \in Threads |-> <<>>]
    /\ driver = [pc |-> "idle", idx |-> 1, sched |-> <<MainThread, 1>>,
                 forget |-> FALSE, task |-> NullHandle, held |-> {}, spawns |-> 0]
    /\ stopRequested = FALSE
    /\ ub = FALSE
    /\ updateCount = [id \in SchedulerIds |-> 0]
    /\ hist = [a \in Addr |-> NoHist]
    /\ drain = [sched |-> <<MainThread, 1>>, start |-> <<>>, resumed |-> <<>>,
                stamps |-> <<>>, stamp |-> 0]
    /\ schedSeq = 0
    /\ now = 0
    /\ allocator = NoAllocator
    /\ pool = NoPool
    /\ taskSystem = NoTaskSystem

Next ==
    \/ \E p \in TopProgs, fg \in BOOLEAN : Spawn(p, fg)
    \/ TaskReturned
    \/ \E f \in Addr : ForgetHeld(f)
    \/ \E f \in Addr : DropTask(f)
    \/ RequestStop
    \/ UpdateBegin
    \/ UpdateResume
    \/ \E outcome \in {"crash", "stale"} : UpdateResumeDangling(outcome)
    \/ UpdateEnd
    \/ \E t \in Threads, f \in Addr : UserTask(t, f)
    \/ \E t \in Threads, f \in Addr : DelayFrame(t, f)
    \/ \E t \in Threads, f \in Addr : AwaiterBody(t, f)
    \/ \E t \in Threads, f \in Addr : AwaiterCall(t, f)
    \/ \E t \in Threads, f \in Addr : Await(t, f)
    \/ \E t \in Threads, f \in Addr : AwaiterResume(t, f)
    \/ \E t \in Threads, f \in Addr : WhenAll(t, f)
    \/ \E t \in Threads, f \in Addr : WhenAllResume(t, f)
    \/ \E t \in Threads, f \in Addr : FinalSuspend(t, f)

Spec == Init /\ [][Next]_vars

\* stop_source::request_stop() by the host, at any time between its calls.
request_stop ==
    /\ driver.pc = "idle"
    /\ ~stopRequested
    /\ stopRequested' = TRUE
    /\ UNCHANGED <<threadContexts_, frame, result_, continuation_, isForgotten_,
                   nextFrame, stack, driver, ub, updateCount, hist, drain,
                   schedSeq, now, pool, taskSystem, allocator>>

\* The steady clock advances.
Tick ==
    /\ now < MaxNow
    /\ now' = now + 1
    /\ UNCHANGED <<threadContexts_, frame, result_, continuation_, isForgotten_,
                   nextFrame, stack, driver, stopRequested, ub, updateCount,
                   hist, drain, schedSeq, pool, taskSystem, allocator>>

\* The host calls waits that hold the token of its stop_source, drives the
\* scheduler and requests the stop at some time.
NextWait ==
    \/ \E p \in WaitProgs, fg \in BOOLEAN : Spawn(p, fg)
    \/ TaskReturned
    \/ \E f \in Addr : ForgetHeld(f)
    \/ \E f \in Addr : DropTask(f)
    \/ request_stop
    \/ Tick
    \/ UpdateBegin
    \/ UpdateResume
    \/ UpdateEnd
    \/ \E t \in Threads, f \in Addr : DelayFrame(t, f)
    \/ \E t \in Threads, f \in Addr : WaitFor(t, f)
    \/ \E t \in Threads, f \in Addr : WaitUntil(t, f)
    \/ \E t \in Threads, f \in Addr : FinalSuspend(t, f)

SpecWait == Init /\ [][NextWait]_vars

\* A thread other than the scheduler's owner.
OtherThread == "other"

\* A coroutine that runs on another thread and switches to the scheduler of
\* the main thread, and whose Task is forgotten.
SwitchProg == Prog("switch", 0, "value", "-", "-", <<>>)

\* The other thread calls a coroutine function that at once does
\* co_await SwitchToSelectedScheduler(id): await_suspend schedules the
\* handle on the main thread's scheduler, remotely; then it calls Forget().
RemoteSwitch ==
    /\ driver.pc = "idle"
    /\ driver.spawns < MaxSpawns
    /\ nextFrame <= MaxFrames
    /\ LET a == nextFrame
           id == <<MainThread, 1>>
       IN  /\ frame' = [frame EXCEPT ![a] =
                 [NewFrame(SwitchProg, NullHandle, <<>>, {}) EXCEPT
                     !.status = "suspended"]]
           /\ threadContexts_' = ManagerSchedule(OtherThread, id, a)
           /\ isForgotten_' = [isForgotten_ EXCEPT ![a] = TRUE]
           /\ hist' = [hist EXCEPT ![a] = [NoHist EXCEPT
                         !.home = id, !.bornAt = updateCount[id],
                         !.stamp = schedSeq + 1, !.forgot = "pending"]]
           /\ nextFrame' = a + 1
           /\ schedSeq' = schedSeq + 1
           /\ driver' = [driver EXCEPT !.spawns = @ + 1]
    /\ UNCHANGED <<result_, continuation_, stack, stopRequested, ub, updateCount,
                   drain, now, pool, taskSystem, allocator>>

\* The switching coroutine, resumed by Update() on the main thread.
SwitchResume(t, f) ==
    /\ Running(t, f)
    /\ frame[f].prog.type = "switch"
    /\ frame[f].pc = "body"
    /\ Complete(f, frame, hist, ub, return_value(<<f>>))
    /\ UNCHANGED <<now, pool, taskSystem, allocator>>

\* handle.destroy() on each handle of q in turn, from frames F, history H
\* and undefined behaviour U.
RECURSIVE DestroyEach(_, _, _, _)
DestroyEach(F, H, U, q) ==
    IF q = <<>> THEN [frame |-> F, hist |-> H, ub |-> U]
    ELSE DestroyEach(Destroy(F, {Head(q)}), Destroyed(H, F, {Head(q)}),
                     U \/ DoubleDestroy(F, {Head(q)}), Tail(q))

\* ~TaskScheduler, when the host destroys the scheduler between two calls:
\* destroy() on each handle of handles_, of updateHandles_ and of the
\* remote list.  The host runs no coroutine afterwards.
DestroyScheduler ==
    /\ driver.pc = "idle"
    /\ LET id == <<MainThread, 1>>
           sch == GetScheduler(id)
           d == DestroyEach(frame, hist, ub,
                            sch.handles_ \o sch.updateHandles_ \o sch.remoteHead_)
       IN  /\ frame' = d.frame
           /\ hist' = d.hist
           /\ ub' = d.ub
           /\ threadContexts_' =
                 [threadContexts_ EXCEPT ![id[1]].schedulers[id[2]] =
                     NewScheduler(sch.ownerId_)]
    /\ driver' = [driver EXCEPT !.pc = "shutdown"]
    /\ UNCHANGED <<result_, continuation_, isForgotten_, nextFrame, stack,
                   stopRequested, updateCount, drain, schedSeq, now, pool,
                   taskSystem, allocator>>

\* ~Task on a Task the host kept, when it goes out of scope after the
\* scheduler has been destroyed.
TaskScopeExit(f) ==
    /\ driver.pc = "shutdown"
    /\ f \in driver.held
    /\ frame' = Destroy(frame, {f})
    /\ hist' = Destroyed(hist, frame, {f})
    /\ ub' = (ub \/ DoubleDestroy(frame, {f}))
    /\ driver' = [driver EXCEPT !.held = @ \ {f}]
    /\ UNCHANGED <<threadContexts_, result_, continuation_, isForgotten_, nextFrame,
                   stack, stopRequested, updateCount, drain, schedSeq, now, pool,
                   taskSystem, allocator>>

\* The host runs tasks, another thread sends some over, and the host
\* destroys the scheduler at some time.
NextDestroy ==
    \/ \E p \in LeafProgs, fg \in BOOLEAN : Spawn(p, fg)
    \/ RemoteSwitch
    \/ TaskReturned
    \/ \E f \in Addr : ForgetHeld(f)
    \/ \E f \in Addr : DropTask(f)
    \/ UpdateBegin
    \/ UpdateResume
    \/ UpdateEnd
    \/ \E t \in Threads, f \in Addr : UserTask(t, f)
    \/ \E t \in Threads, f \in Addr : DelayFrame(t, f)
    \/ \E t \in Threads, f \in Addr : SwitchResume(t, f)
    \/ \E t \in Threads, f \in Addr : FinalSuspend(t, f)
    \/ DestroyScheduler
    \/ \E f \in Addr : TaskScopeExit(f)

SpecDestroy == Init /\ [][NextDestroy]_vars

(***************************************************************************)
(* Activation: TaskSystem with its SchedulerRegistration objects, and      *)
(* TaskSchedulerManager                                                    *)
(***************************************************************************)
\* The threads that use TaskSystem and that the manager was constructed
\* for, and a thread the manager does not know.
SystemThreads == {MainThread, OtherThread}

Stranger == "stranger"

RegIds == 1..MaxRegs

\* Scheduler ids a caller may pass, valid or not.
AnyIds == (SystemThreads \cup {Stranger}) \X (1..(MaxSchedulers + 1))

\* The variables of the coroutines, which these calls leave alone.
taskVars == <<frame, result_, continuation_, isForgotten_, nextFrame, stack,
              driver, stopRequested, updateCount, hist, drain, schedSeq, now,
              pool, allocator>>

\* TaskSystem::ThreadState{}.
NewThreadState ==
    [initialized |-> FALSE, nextInternalId |-> 1, internalIdStack |-> <<>>,
     schedulers |-> {}]

\* No SchedulerRegistration object; act: the activation it stands for.
NoRegistration == [live |-> FALSE, valid_ |-> FALSE, thread |-> MainThread, act |-> 0]

\* History of a thread's activations not yet released, oldest first: the
\* entry a of the activation is taken out when it is released.
Released(open, a) == SelectSeq(open, LAMBDA e : e.act # a)

\* A name for a new activation.
NewAct ==
    CHOOSE a \in 1..(2 * MaxDepth + 2) :
        \A t \in SystemThreads :
            /\ \A i \in DOMAIN taskSystem.open[t] : taskSystem.open[t][i].act # a
            /\ \A i \in DOMAIN taskSystem.mopen[t] : taskSystem.mopen[t][i].act # a

IsInitialized(t) == taskSystem.state[t].initialized

\* TaskSystem::ValidateId on thread t.
ValidateId(t, id) ==
    t = id[1] /\ id[2] \in taskSystem.state[t].schedulers

\* TaskSystem::Initialize on thread t; c: config.createDefaultScheduler.
Initialize(t, c) ==
    /\ taskSystem.api = "TaskSystem"
    /\ IF IsInitialized(t)
       THEN taskSystem' = [taskSystem EXCEPT
               !.error = TRUE]
       ELSE LET st == taskSystem.state[t]
                id == st.nextInternalId
            IN  taskSystem' = [taskSystem EXCEPT
                   !.state[t] =
                       IF c THEN [st EXCEPT !.nextInternalId = id + 1,
                                            !.schedulers = @ \cup {id},
                                            !.internalIdStack = Append(@, id),
                                            !.initialized = TRUE]
                       ELSE [st EXCEPT !.initialized = TRUE],
                   !.open[t] = IF c THEN Append(@, [act |-> NewAct, id |-> id])
                               ELSE @,
                   !.error = FALSE]
    /\ UNCHANGED <<threadContexts_, ub>>
    /\ UNCHANGED taskVars

\* TaskSystem::Shutdown on thread t.  The host releases the registrations
\* of the thread before it shuts the thread's system down.
Shutdown(t) ==
    /\ taskSystem.api = "TaskSystem"
    /\ \A r \in RegIds :
          ~(taskSystem.regs[r].live /\ taskSystem.regs[r].valid_
            /\ taskSystem.regs[r].thread = t)
    /\ IF ~IsInitialized(t)
       THEN taskSystem' = [taskSystem EXCEPT
               !.error = TRUE]
       ELSE taskSystem' = [taskSystem EXCEPT
               !.state[t] = NewThreadState,
               !.open[t] = <<>>,
               !.error = FALSE]
    /\ UNCHANGED <<threadContexts_, ub>>
    /\ UNCHANGED taskVars

\* TaskSystem::GetCurrentSchedulerId on thread t.
GetCurrentSchedulerId(t) ==
    /\ taskSystem.api = "TaskSystem"
    /\ LET st == taskSystem.state[t].internalIdStack
       IN  IF ~IsInitialized(t) \/ st = <<>>
           THEN taskSystem' = [taskSystem EXCEPT
                   !.error = TRUE]
           ELSE taskSystem' = [taskSystem EXCEPT
                   !.error = FALSE]
    /\ UNCHANGED <<threadContexts_, ub>>
    /\ UNCHANGED taskVars

\* TaskSystem::CreateScheduler on thread t, MaxSchedulers times at most.
CreateScheduler(t) ==
    /\ taskSystem.api = "TaskSystem"
    /\ taskSystem.state[t].nextInternalId <= MaxSchedulers
    /\ IF ~IsInitialized(t)
       THEN taskSystem' = [taskSystem EXCEPT
               !.error = TRUE]
       ELSE LET id == taskSystem.state[t].nextInternalId
            IN  taskSystem' = [taskSystem EXCEPT
                   !.state[t].nextInternalId = id + 1,
                   !.state[t].schedulers = @ \cup {id},
                   !.error = FALSE]
    /\ UNCHANGED <<threadContexts_, ub>>
    /\ UNCHANGED taskVars

\* auto r = TaskSystem::RegisterScheduler(id) on thread t: ThrowIfInvalidId,
\* then SchedulerRegistration{id} pushes the internal id.
RegisterScheduler(t, id, r) ==
    /\ taskSystem.api = "TaskSystem"
    /\ ~taskSystem.regs[r].live
    /\ Len(taskSystem.state[t].internalIdStack) < MaxDepth
    /\ IF ~ValidateId(t, id)
       THEN taskSystem' = [taskSystem EXCEPT
               !.error = TRUE]
       ELSE LET a == NewAct
            IN  taskSystem' = [taskSystem EXCEPT
                   !.state[t].internalIdStack = Append(@, id[2]),
                   !.regs[r] = [live |-> TRUE, valid_ |-> TRUE, thread |-> t,
                                act |-> a],
                   !.open[t] = Append(@, [act |-> a, id |-> id[2]]),
                   !.error = FALSE]
    /\ UNCHANGED <<threadContexts_, ub>>
    /\ UNCHANGED taskVars

\* SchedulerRegistration r; on thread t (the default constructor).
RegistrationDefault(t, r) ==
    /\ taskSystem.api = "TaskSystem"
    /\ ~taskSystem.regs[r].live
    /\ taskSystem' = [taskSystem EXCEPT
          !.regs[r] = [live |-> TRUE, valid_ |-> FALSE, thread |-> t, act |-> 0],
          !.error = FALSE]
    /\ UNCHANGED <<threadContexts_, ub>>
    /\ UNCHANGED taskVars

\* internalIdStack.pop(); pop() of an empty std::stack is undefined.
PopId(st) == IF st = <<>> THEN st ELSE SubSeq(st, 1, Len(st) - 1)

\* ~SchedulerRegistration of r, on the thread that made it.
RegistrationDestroy(r) ==
    /\ taskSystem.api = "TaskSystem"
    /\ taskSystem.regs[r].live
    /\ LET reg == taskSystem.regs[r]
           t == reg.thread
       IN  /\ taskSystem' = [taskSystem EXCEPT
                 !.state[t].internalIdStack = IF reg.valid_ THEN PopId(@) ELSE @,
                 !.open[t] = Released(@, reg.act),
                 !.regs[r] = NoRegistration,
                 !.error = FALSE]
           /\ ub' = (ub \/ (reg.valid_ /\ taskSystem.state[t].internalIdStack = <<>>))
    /\ UNCHANGED threadContexts_
    /\ UNCHANGED taskVars

\* SchedulerRegistration r1(std::move(r2)).
RegistrationMove(r1, r2) ==
    /\ taskSystem.api = "TaskSystem"
    /\ ~taskSystem.regs[r1].live
    /\ taskSystem.regs[r2].live
    /\ taskSystem' = [taskSystem EXCEPT
          !.regs[r1] = taskSystem.regs[r2],
          !.regs[r2].valid_ = FALSE,
          !.regs[r2].act = 0,
          !.error = FALSE]
    /\ UNCHANGED <<threadContexts_, ub>>
    /\ UNCHANGED taskVars

\* r1 = std::move(r2), two objects of one thread.
RegistrationAssign(r1, r2) ==
    /\ taskSystem.api = "TaskSystem"
    /\ taskSystem.regs[r1].live
    /\ taskSystem.regs[r2].live
    /\ taskSystem.regs[r1].thread = taskSystem.regs[r2].thread
    /\ LET a == taskSystem.regs[r1]
           b == taskSystem.regs[r2]
           t == a.thread
       IN  IF r1 = r2
           THEN /\ taskSystem' = [taskSystem EXCEPT
                      !.error = FALSE]
                /\ UNCHANGED ub
           ELSE /\ taskSystem' = [taskSystem EXCEPT
                      !.state[t].internalIdStack = IF a.valid_ THEN PopId(@) ELSE @,
                      !.open[t] = Released(@, a.act),
                      !.regs[r1].valid_ = b.valid_,
                      !.regs[r1].act = b.act,
                      !.regs[r2].valid_ = FALSE,
                      !.regs[r2].act = 0,
                      !.error = FALSE]
                /\ ub' = (ub \/ (a.valid_ /\ taskSystem.state[t].internalIdStack = <<>>))
    /\ UNCHANGED threadContexts_
    /\ UNCHANGED taskVars

\* A faulty ThrowIfDifferentThread that never throws.
ThrowIfDifferentThread_Never(t, id) == FALSE

\* TaskSchedulerManager::ThrowIfDifferentThread throws.
ThrowIfDifferentThread(t, id) == t # id[1]

\* TaskSchedulerManager::ThrowIfInvalidThread throws.
ThrowIfInvalidThread(t) == t \notin DOMAIN threadContexts_

\* TaskSchedulerManager::ThrowIfInvalidId throws.
ThrowIfInvalidId(id) ==
    \/ ThrowIfInvalidThread(id[1])
    \/ id[2] \notin DOMAIN threadContexts_[id[1]].schedulers

\* TaskSchedulerManager::ThrowIfNoActiveScheduler throws.
ThrowIfNoActiveScheduler(t) == ~HasActiveScheduler(t)

\* TaskSchedulerManager::ActivateScheduler(id) called on thread t.
ActivateScheduler(t, id) ==
    /\ taskSystem.api = "TaskSchedulerManager"
    /\ ~ThrowIfInvalidThread(id[1]) =>
          Len(threadContexts_[id[1]].internalIdStack) < MaxDepth
    /\ IF ThrowIfDifferentThread(t, id) \/ ThrowIfInvalidId(id)
       THEN /\ taskSystem' = [taskSystem EXCEPT
                  !.error = TRUE]
            /\ UNCHANGED threadContexts_
       ELSE /\ threadContexts_' = [threadContexts_ EXCEPT
                  ![id[1]].internalIdStack = Append(@, id[2])]
            /\ taskSystem' = [taskSystem EXCEPT
                  !.mopen[id[1]] = Append(@, [act |-> NewAct, id |-> id[2]]),
                  !.error = FALSE]
    /\ UNCHANGED ub
    /\ UNCHANGED taskVars

\* TaskSchedulerManager::DeactivateScheduler called on thread t.
DeactivateScheduler(t) ==
    /\ taskSystem.api = "TaskSchedulerManager"
    /\ IF ThrowIfInvalidThread(t) \/ ThrowIfNoActiveScheduler(t)
       THEN /\ taskSystem' = [taskSystem EXCEPT
                  !.error = TRUE]
            /\ UNCHANGED threadContexts_
       ELSE /\ threadContexts_' = [threadContexts_ EXCEPT
                  ![t].internalIdStack = Pop(@)]
            /\ taskSystem' = [taskSystem EXCEPT
                  !.mopen[t] = Pop(@),
                  !.error = FALSE]
    /\ UNCHANGED ub
    /\ UNCHANGED taskVars

\* TaskSchedulerManager::GetActivatedSchedulerId called on thread t.
CallGetActivatedSchedulerId(t) ==
    /\ taskSystem.api = "TaskSchedulerManager"
    /\ IF ThrowIfInvalidThread(t) \/ ThrowIfNoActiveScheduler(t)
       THEN taskSystem' = [taskSystem EXCEPT
               !.error = TRUE]
       ELSE taskSystem' = [taskSystem EXCEPT
               !.error = FALSE]
    /\ UNCHANGED <<threadContexts_, ub>>
    /\ UNCHANGED taskVars

\* TaskSchedulerManager::GetPendingTaskCount(id) called on thread t.
CallGetPendingTaskCount(t, id) ==
    /\ taskSystem.api = "TaskSchedulerManager"
    /\ IF ThrowIfInvalidId(id)
       THEN taskSystem' = [taskSystem EXCEPT
               !.error = TRUE]
       ELSE taskSystem' = [taskSystem EXCEPT
               !.error = FALSE]
    /\ UNCHANGED <<threadContexts_, ub>>
    /\ UNCHANGED taskVars

\* A manager constructed for the system threads with MaxSchedulers
\* schedulers each; no thread has initialized TaskSystem.  The program
\* uses one of the two interfaces.
InitActivation ==
    /\ threadContexts_ =
          [t \in SystemThreads |->
              [internalIdStack |-> <<>>,
               schedulers |-> [i \in 1..MaxSchedulers |-> NewScheduler(t)]]]
    /\ taskSystem \in
          {[api |-> api,
            state |-> [t \in SystemThreads |-> NewThreadState],
            regs |-> [r \in RegIds |-> NoRegistration],
            open |-> [t \in SystemThreads |-> <<>>],
            mopen |-> [t \in SystemThreads |-> <<>>],
             error |-> FALSE]
           : api \in {"TaskSystem", "TaskSchedulerManager"}}
    /\ frame = [a \in Addr |-> NoFrame]
    /\ result_ = [a \in Addr |-> Empty]
    /\ continuation_ = [a \in Addr |-> NullHandle]
    /\ isForgotten_ = [a \in Addr |-> FALSE]
    /\ nextFrame = 1
    /\ stack = [t \in Threads |-> <<>>]
    /\ driver = [pc |-> "idle", idx |-> 1, sched |-> <<MainThread, 1>>,
                 forget |-> FALSE, task |-> NullHandle, held |-> {}, spawns |-> 0]
    /\ stopRequested = FALSE
    /\ ub = FALSE
    /\ updateCount = [id \in SchedulerIds |-> 0]
    /\ hist = [a \in Addr |-> NoHist]
    /\ drain = [sched |-> <<MainThread, 1>>, start |-> <<>>, resumed |-> <<>>,
                stamps |-> <<>>, stamp |-> 0]
    /\ schedSeq = 0
    /\ now = 0
    /\ allocator = NoAllocator
    /\ pool = NoPool

NextActivation ==
    \/ \E t \in SystemThreads, c \in BOOLEAN : Initialize(t, c)
    \/ \E t \in SystemThreads : Shutdown(t)
    \/ \E t \in SystemThreads : GetCurrentSchedulerId(t)
    \/ \E t \in SystemThreads : CreateScheduler(t)
    \/ \E t \in SystemThreads, id \in AnyIds, r \in RegIds : RegisterScheduler(t, id, r)
    \/ \E t \in SystemThreads, r \in RegIds : RegistrationDefault(t, r)
    \/ \E r \in RegIds : RegistrationDestroy(r)
    \/ \E r1, r2 \in RegIds : RegistrationMove(r1, r2)
    \/ \E r1, r2 \in RegIds : RegistrationAssign(r1, r2)
    \/ \E t \in SystemThreads \cup {Stranger}, id \in AnyIds : ActivateScheduler(t, id)
    \/ \E t \in SystemThreads \cup {Stranger} : DeactivateScheduler(t)
    \/ \E t \in SystemThreads \cup {Stranger} : CallGetActivatedSchedulerId(t)
    \/ \E t \in SystemThreads \cup {Stranger}, id \in AnyIds :
          CallGetPendingTaskCount(t, id)

SpecActivation == InitActivation /\ [][NextActivation]_vars

\* The host awaits one WhenAny call in a task of its own and drives the
\* scheduler.
WhenAnyAwaiters == {Prog("awaiter", 0, "-", "-", "-", <<q>>) : q \in WhenAnyProgs}

NextWhenAny ==
    \/ \E p \in WhenAnyAwaiters, fg \in BOOLEAN : SpawnWithin(p, fg, MaxAddr)
    \/ TaskReturned
    \/ \E f \in Addr : ForgetHeld(f)
    \/ \E f \in Addr : DropTask(f)
    \/ UpdateBegin
    \/ UpdateResume
    \/ UpdateEnd
    \/ \E t \in Threads, f \in Addr : UserTask(t, f)
    \/ \E t \in Threads, f \in Addr : AwaiterCall(t, f)
    \/ \E t \in Threads, f \in Addr : Await(t, f)
    \/ \E t \in Threads, f \in Addr : AwaiterResume(t, f)
    \/ \E t \in Threads, f \in Addr : WhenAnyHelper(t, f)
    \/ \E t \in Threads, f \in Addr : WhenAnyHelperForget(t, f)
    \/ \E t \in Threads, f \in Addr : WhenAnyHelperTask(t, f)
    \/ \E t \in Threads, f \in Addr : WhenAny(t, f)
    \/ \E t \in Threads, f \in Addr : FinalSuspend(t, f)

SpecWhenAny == Init /\ [][NextWhenAny]_vars

(***************************************************************************)
(* Properties                                                              *)
(***************************************************************************)
Created(f) == frame[f].prog.type # "none"

OnStack(f) == \E t \in Threads : \E i \in DOMAIN stack[t] : stack[t][i] = f

Range(q) == {q[i] : i \in DOMAIN q}

\* The handles that wait in the queues of scheduler id.
QueuedHandles(id) ==
    LET sch == GetScheduler(id)
    IN  Range(sch.handles_) \cup Range(sch.remoteHead_)
        \cup (IF driver.pc = "update" /\ driver.sched = id
              THEN {sch.updateHandles_[i] : i \in driver.idx..Len(sch.updateHandles_)}
              ELSE {})

\* C1: one Update() resumes exactly the handles queued when it started to
\* drain, in that order; no handle it resumes was enqueued after that, so a
\* handle enqueued while it runs waits for a later Update(); and a task
\* that yields k times is resumed k times, once per Update(), and finishes
\* in the k-th Update() after its creation.
C1_UpdateDrainsSnapshot ==
    /\ Len(drain.resumed) <= Len(drain.start)
    /\ drain.resumed = SubSeq(drain.start, 1, Len(drain.resumed))
    /\ driver.pc = "idle" => drain.resumed = drain.start
    /\ \A i \in DOMAIN drain.stamps : drain.stamps[i] <= drain.stamp
    /\ \A f \in Addr :
          frame[f].prog.type = "user" =>
             /\ hist[f].resumes <= updateCount[hist[f].home] - hist[f].bornAt
             /\ hist[f].resumes <= frame[f].prog.n
             /\ IsReady(f) =>
                   /\ hist[f].resumes = frame[f].prog.n
                   /\ hist[f].doneAt - hist[f].bornAt = frame[f].prog.n

\* A task that yields MaxYields times has finished, in its MaxYields-th
\* Update(), the first yield of which was enqueued outside any Update() and
\* the others while an Update() ran.
C1_Witness ==
    /\ driver.pc = "idle"
    /\ drain.start # <<>>
    /\ \E f \in Addr :
          /\ frame[f].prog.type = "user"
          /\ frame[f].prog.n = MaxYields
          /\ IsReady(f)
          /\ hist[f].resumes = MaxYields

\* C2: the handles one Update() resumes are resumed in the order of the
\* Schedule() calls of the owner thread that enqueued them.
C2_FifoWithinUpdate ==
    \A i, j \in DOMAIN drain.stamps :
        i < j => drain.stamps[i] < drain.stamps[j]

\* One Update() has resumed two handles.
C2_Witness ==
    /\ driver.pc = "idle"
    /\ Len(drain.resumed) >= 2

\* C3: a coroutine never rests at its start: once the call that created it
\* has gone on, it has completed, or it is suspended at a co_yield or at a
\* co_await of its body; no Update() is needed for that.
C3_EagerStart ==
    \A f \in Addr :
        (Created(f) /\ ~OnStack(f)) =>
            \/ IsReady(f)
            \/ ~frame[f].alive
            \/ /\ frame[f].status = "suspended"
               /\ hist[f].stamp > 0 \/ frame[f].pc = "resume"

\* The call of a coroutine function has returned to the host before any
\* Update(), and the task it returned is complete.
C3_Witness ==
    /\ driver.pc = "idle"
    /\ TotalUpdates = 0
    /\ \E f \in Addr : frame[f].alive /\ IsReady(f) /\ frame[f].creator = NullHandle

\* C4: a task that awaits a complete sub-task does not suspend and goes on
\* at once (no Update() between); a task that awaits an incomplete one goes
\* on in the Update() call in which the sub-task completes; and a task
\* suspended in a co_await is in no scheduler queue.
C4_AwaitWithoutRoundTrip ==
    \A f \in Addr :
        /\ (hist[f].awaitAt >= 0 /\ hist[f].awaitReady) => ~hist[f].parked
        /\ hist[f].resumedAt >= 0 =>
              IF hist[f].awaitReady
              THEN /\ hist[f].resumedAt = hist[f].awaitAt
                   /\ hist[f].resumedIn = hist[f].awaitIn
              ELSE /\ hist[f].resumedAt = hist[hist[f].last].doneAt
                   /\ hist[f].resumedIn = hist[hist[f].last].doneIn
                   /\ hist[f].resumedIn
        /\ (frame[f].alive /\ frame[f].pc = "resume"
               /\ frame[f].status = "suspended") =>
              \A id \in SchedulerIds : f \notin QueuedHandles(id)

\* An awaiting task has awaited an incomplete sub-task, and has gone on in a
\* later Update(); another has awaited a complete one.
C4_Witness ==
    /\ \E f \in Addr :
          /\ frame[f].prog.type = "awaiter"
          /\ ~hist[f].awaitReady
          /\ hist[f].resumedAt > hist[f].awaitAt
    /\ \E f \in Addr :
          /\ hist[f].resumedAt >= 0
          /\ hist[f].awaitReady

\* Once set, result_ is not written again.
ResultKept ==
    \A f \in Addr : result_[f].kind # "empty" => result_'[f] = result_[f]

\* C5: result_ is empty until the body is over and holds a value or a
\* captured exception from then on, the same for ever; the result of a task
\* is taken at most once, and what its awaiter gets is what is stored.
C5_ResultSetOnce ==
    /\ [](\A f \in Addr :
            /\ (Created(f) /\ frame[f].pc \in {"final", "done"}) =>
                  result_[f].kind \in {"value", "failure", "stopped"}
            /\ IsReady(f) => frame[f].pc \in {"final", "done"}
            /\ hist[f].delivered <= 1
            /\ hist[f].delivered = 1 => hist[f].got = result_[f])
    /\ [][ResultKept]_vars

\* An awaiter has got a captured exception, another a value.
C5_Witness ==
    /\ \E f \in Addr : hist[f].delivered = 1 /\ IsFailure(hist[f].got)
    /\ \E f \in Addr : hist[f].delivered = 1 /\ hist[f].got.kind = "value"

\* C6: a frame forgotten when ready is destroyed by Forget(); a frame
\* forgotten before is alive until its final suspension and destroyed
\* there; either is destroyed once, and after its body has completed.
C6_ForgetDestroysOnce ==
    \A f \in Addr :
        /\ hist[f].forgot = "ready" =>
              ~frame[f].alive /\ hist[f].destroyCount = 1
        /\ hist[f].forgot = "pending" =>
              IF frame[f].pc = "done"
              THEN ~frame[f].alive /\ hist[f].destroyCount = 1
              ELSE frame[f].alive /\ hist[f].destroyCount = 0
        /\ (hist[f].forgot # "no" /\ ~frame[f].alive) =>
              IsReady(f) /\ ~hist[f].killed

\* One frame was forgotten when ready, another before and has since gone
\* through its final suspension.
C6_Witness ==
    /\ \E f \in Addr : hist[f].forgot = "ready"
    /\ \E f \in Addr :
          hist[f].forgot = "pending" /\ frame[f].pc = "done" /\ hist[f].resumes > 0

\* C7: the exception a task throws is stored in its own promise; nobody
\* takes the result of a forgotten task; and a captured exception is held
\* only by the task that threw it and by the tasks that took it from the
\* task they awaited, which end with it.
C7_FailureReachesOnlyAwaiter ==
    \A f \in Addr :
        /\ (/\ frame[f].prog.type = "user"
            /\ frame[f].prog.ends = "throw"
            /\ frame[f].pc \in {"final", "done"}) =>
              result_[f] = Failure("failure", f)
        /\ hist[f].forgot # "no" =>
              hist[f].delivered = 0 /\ hist[f].awaiter = NullHandle
        /\ (IsFailure(result_[f]) /\ result_[f].val # <<f>>) =>
              \E x \in Addr : hist[x].awaiter = f /\ hist[x].got = result_[f]
        /\ (IsFailure(hist[f].got) /\ IsReady(hist[f].awaiter)) =>
              result_[hist[f].awaiter] = hist[f].got

\* A forgotten task has thrown, and the exception of an awaited task has
\* been taken by its awaiter.
C7_Witness ==
    /\ \E f \in Addr :
          hist[f].forgot # "no" /\ result_[f] = Failure("failure", f)
    /\ \E f \in Addr : IsFailure(hist[f].got)

\* C8: a task that awaits DelayFrame(n) and gets no OperationStoppedError
\* goes on, for n >= 1, in the n-th Update() after the call; for n <= 0
\* it does not suspend.
C8_DelayFrameExact ==
    \A f \in Addr :
        (/\ frame[f].prog.type = "awaiter"
         /\ frame[f].prog.args[1].type = "delay"
         /\ hist[f].resumedAt >= 0
         /\ hist[hist[f].last].got.kind = "value") =>
            LET n == frame[f].prog.args[1].n
            IN  IF n >= 1
                THEN /\ hist[f].parked
                     /\ hist[f].resumedAt - hist[f].awaitAt = n
                     /\ hist[f].resumedIn
                ELSE /\ ~hist[f].parked
                     /\ hist[f].resumedAt = hist[f].awaitAt
                     /\ hist[f].resumedIn = hist[f].awaitIn

\* A task has awaited DelayFrame(MaxDelay), called while an Update() ran,
\* and has gone on MaxDelay Update() calls later.
C8_Witness ==
    \E f \in Addr :
        /\ frame[f].prog.type = "awaiter"
        /\ frame[f].prog.args[1].type = "delay"
        /\ frame[f].prog.args[1].n = MaxDelay
        /\ hist[f].awaitIn
        /\ hist[f].resumedAt = hist[f].awaitAt + MaxDelay
        /\ hist[hist[f].last].got.kind = "value"

AllSucceed(w) ==
    \A j \in DOMAIN frame[w].prog.args : frame[w].prog.args[j].ends = "value"

MaxOf(S) == CHOOSE x \in S : \A y \in S : y <= x

\* The tasks of WhenAll w are complete and have left their final suspension.
TasksOver(w, S) ==
    \A b \in S : IsReady(b) /\ ~OnStack(b)

\* C9: a WhenAll whose tasks all succeed completes with a value, in the
\* Update() call in which the last of them completes, max(n_i) calls after
\* its creation, at once when that is 0; its tuple holds the tasks' values
\* in argument order.
C9_WhenAllCompletesWithLast ==
    \A w \in Addr :
        (frame[w].prog.type = "whenall" /\ AllSucceed(w)) =>
            LET args == frame[w].prog.args
                tasks == Range(frame[w].tasks)
                m == MaxOf({args[j].n : j \in DOMAIN args} \cup {0})
                c == frame[w].creator
            IN  /\ IsReady(w) =>
                      /\ result_[w].kind = "value"
                      /\ hist[w].doneAt - hist[w].bornAt = m
                      /\ \A b \in tasks : hist[b].doneAt <= hist[w].doneAt
                      /\ tasks # {} =>
                            \E b \in tasks : /\ hist[b].doneAt = hist[w].doneAt
                                             /\ hist[b].doneIn = hist[w].doneIn
                      /\ frame[w].prog.variant = "tuple" =>
                            result_[w].val =
                               [j \in DOMAIN args |-> result_[frame[w].tasks[j]].val[1]]
                /\ (~IsReady(w) /\ frame[w].alive /\ ~OnStack(w)) =>
                      ~TasksOver(w, tasks)
                /\ (m = 0 /\ hist[c].awaitAt >= 0) => ~hist[c].parked

\* A WhenAll of two tasks with distinct numbers of yields, the first of
\* which takes longer, has completed with its tuple.
C9_Witness ==
    \E w \in Addr :
        /\ frame[w].prog.type = "whenall"
        /\ frame[w].prog.variant = "tuple"
        /\ AllSucceed(w)
        /\ Len(frame[w].prog.args) = 2
        /\ frame[w].prog.args[1].n = MaxYields
        /\ frame[w].prog.args[2].n < MaxYields
        /\ IsReady(w)

\* The tasks of WhenAll w in the order in which it awaits them.
AwaitOrder(w) ==
    LET k == Len(frame[w].tasks)
    IN  [c \in 1..k |->
            IF frame[w].prog.variant = "tuple" /\ frame[w].prog.order = "rtl"
            THEN frame[w].tasks[k + 1 - c] ELSE frame[w].tasks[c]]

Throws(b) == frame[b].prog.ends = "throw"

\* C10, as claimed: a WhenAll that ends with the exception of one of its
\* tasks ends in the Update() call in which that task threw.
C10_FailsWhenTaskFails ==
    \A w \in Addr :
        (frame[w].prog.type = "whenall" /\ IsReady(w) /\ IsFailure(result_[w])) =>
            LET o == result_[w].val[1]
            IN  /\ hist[w].doneAt = hist[o].doneAt
                /\ hist[w].doneIn = hist[o].doneIn

\* C10, amended: a WhenAll some task of which throws ends with the
\* exception of the first such task in the order in which it awaits them,
\* in the Update() call in which the last of that task and of the tasks
\* awaited before it completes (the tasks awaited after it do not count),
\* and its awaiter goes on in that call.
C10_FailsAfterEarlierTasks ==
    \A w \in Addr :
        (/\ frame[w].prog.type = "whenall"
         /\ \E j \in DOMAIN frame[w].prog.args : frame[w].prog.args[j].ends = "throw") =>
            LET ord == AwaitOrder(w)
                p == CHOOSE c \in DOMAIN ord :
                        Throws(ord[c]) /\ \A d \in 1..(c - 1) : ~Throws(ord[d])
                upto == {ord[c] : c \in 1..p}
                a == frame[w].creator
            IN  /\ IsReady(w) =>
                      /\ result_[w] = Failure("failure", ord[p])
                      /\ \A b \in upto : hist[b].doneAt <= hist[w].doneAt
                      /\ \E b \in upto : /\ hist[b].doneAt = hist[w].doneAt
                                          /\ hist[b].doneIn = hist[w].doneIn
                      /\ hist[a].resumedAt >= 0 =>
                            hist[a].resumedAt = hist[w].doneAt
                /\ (~IsReady(w) /\ frame[w].alive /\ ~OnStack(w)) =>
                      ~TasksOver(w, upto)

\* A WhenAll has ended with the exception of its second task, which threw
\* at once, in the Update() call in which its first task completed.
C10_Witness ==
    \E w \in Addr :
        /\ frame[w].prog.type = "whenall"
        /\ Len(frame[w].tasks) = 2
        /\ IsReady(w)
        /\ result_[w] = Failure("failure", frame[w].tasks[2])
        /\ hist[frame[w].tasks[2]].doneAt < hist[w].doneAt
        /\ hist[frame[w].tasks[1]].doneAt = hist[w].doneAt

\* C11: after a WhenAll has ended with the exception of one of its tasks,
\* each of its tasks that had not completed keeps running: its frame is
\* not destroyed before it has completed, and no Update() call finds its
\* handle dangling.
C11_RemainingTasksKeepRunning ==
    \A w \in Addr :
        (frame[w].prog.type = "whenall" /\ IsReady(w) /\ IsFailure(result_[w])) =>
            \A b \in Range(frame[w].tasks) \ {NullHandle} :
                /\ ~hist[b].killed
                /\ frame[b].alive \/ IsReady(b)

\* The tasks of WhenAny y, and the argument index of its task b.
TasksOf(y) == Range(frame[y].tasks) \ {NullHandle}

IndexOf(y, b) == (CHOOSE j \in DOMAIN frame[y].tasks : frame[y].tasks[j] = b) - 1

\* The task of S that WhenAny y takes the result of: of the tasks complete
\* when WhenAny is called the one of the lowest index, else the task that
\* completes first.
FirstDone(y, S) ==
    LET atCall == {b \in S : hist[b].resumes = 0}
    IN  IF atCall # {}
        THEN CHOOSE b \in atCall : \A c \in atCall : IndexOf(y, b) <= IndexOf(y, c)
        ELSE CHOOSE b \in S : \A c \in S : hist[b].doneSeq <= hist[c].doneSeq

SameCall(b, c) ==
    hist[b].doneAt = hist[c].doneAt /\ hist[b].doneIn = hist[c].doneIn

\* C12: a WhenAny some task of which has completed is complete whenever
\* the host has the control: it completed in the call (the creating call or
\* the Update() call) in which the first of its tasks completed, and its
\* result is that task's argument index and value; of tasks created in
\* argument order that complete in one call, the lowest index wins.
C12_WhenAnyCompletesWithFirst ==
    \A y \in Addr :
        LET done == {b \in TasksOf(y) : IsReady(b)}
            first == FirstDone(y, done)
        IN  (frame[y].prog.type = "whenany" /\ done # {}) =>
                /\ driver.pc = "idle" => IsReady(y)
                /\ IsReady(y) =>
                      /\ SameCall(y, first)
                      /\ result_[y] = Value(<<IndexOf(y, first), first>>)
                      /\ frame[y].prog.order = "ltr" =>
                            \A c \in done :
                                SameCall(c, first) =>
                                    IndexOf(y, first) <= IndexOf(y, c)

\* C13: the tasks of a WhenAny are not stopped, whether or not it has a
\* winner: a task that has not completed is alive and running or queued
\* for the next Update(); the shared cell, once written, holds the index
\* and the value of the first task that completed with a value, and the
\* results of later tasks never replace it; each helper is destroyed, once,
\* in the call in which its task completes, and not before.
C13_LosersRunOn ==
    \A h \in Addr :
        frame[h].prog.type = "helper" =>
            LET y == frame[h].creator
                b == frame[h].sub
                won == {c \in TasksOf(y) : IsReady(c) /\ result_[c].kind = "value"}
                first == FirstDone(y, won)
            IN  /\ ~ub
                /\ hist[h].destroyCount <= 1 /\ hist[b].destroyCount <= 1
                /\ ~hist[b].killed /\ ~hist[h].killed
                /\ ~IsReady(b) =>
                      /\ frame[b].alive /\ frame[h].alive
                      /\ OnStack(b) \/ b \in QueuedHandles(hist[b].home)
                /\ (IsReady(b) /\ driver.pc = "idle") =>
                      /\ ~frame[h].alive /\ hist[h].destroyCount = 1
                      /\ ~frame[b].alive /\ hist[b].destroyCount = 1
                      /\ hist[h].doneAt = hist[b].doneAt
                /\ frame[y].acc # <<>> =>
                      /\ won # {}
                      /\ frame[y].acc = <<IndexOf(y, first), first>>
                /\ IsReady(y) => result_[y] = Value(frame[y].acc)

\* A WhenAny has completed with the value of one task and its awaiter has
\* gone on; another of its tasks has completed with a value in a later
\* Update() call.
C13_Witness ==
    \E h \in Addr :
        /\ frame[h].prog.type = "helper"
        /\ LET y == frame[h].creator
               b == frame[h].sub
           IN  /\ IsReady(y) /\ IsReady(frame[y].creator)
               /\ IsReady(b) /\ result_[b].kind = "value"
               /\ hist[b].doneAt > hist[y].doneAt
               /\ frame[y].acc[2] # b
               /\ ~frame[h].alive

\* C14: when the first task of a WhenAny to complete ends with an
\* exception, WhenAny ends with that exception and its awaiter gets it.
C14_FailingWinnerSurfaces ==
    \A y \in Addr :
        LET done == {b \in TasksOf(y) : IsReady(b)}
            first == FirstDone(y, done)
            a == frame[y].creator
        IN  (/\ frame[y].prog.type = "whenany"
             /\ done # {}
             /\ IsFailure(result_[first])
             /\ driver.pc = "idle") =>
                /\ result_[y] = result_[first]
                /\ result_[a] = result_[first]

IsWait(f) == frame[f].prog.type \in {"delay", "waitfor", "waituntil"}

\* C15: a wait coroutine that runs while the stop is requested ends that
\* run complete with OperationStopped, and never schedules itself; a wait
\* that ends while no stop is requested ends with its value; requesting
\* the stop changes no coroutine, and only waits end with OperationStopped.
C15_StopSeenAtNextRun ==
    /\ [](\A f \in Addr : result_[f].kind = "stopped" => IsWait(f) /\ stopRequested)
    /\ [][/\ \A f \in Addr :
               /\ (stopRequested /\ OnStack(f) /\ ~OnStack(f)') =>
                     result_'[f].kind = "stopped"
               /\ (stopRequested /\ IsWait(f)) => hist'[f].stamp = hist[f].stamp
               /\ (~stopRequested /\ IsWait(f) /\ ~IsReady(f) /\ IsReady(f)') =>
                     result_'[f].kind = "value"
          /\ stopRequested' # stopRequested =>
                UNCHANGED <<frame, result_, threadContexts_, stack>>]_vars

\* A wait that had yielded was resumed after the stop was requested and
\* ended with OperationStopped.
C15_Witness ==
    \E f \in Addr :
        /\ frame[f].prog.type \in {"waitfor", "waituntil"}
        /\ result_[f].kind = "stopped"
        /\ hist[f].resumes >= 1

\* C16: once the scheduler has been destroyed, every coroutine whose handle
\* it held (a coroutine suspended by a yield or by a switch to it) is
\* destroyed, no frame has been destroyed twice, and none of these
\* coroutines was resumed by the destruction: none has completed.
C16_SchedulerDestroysOnce ==
    driver.pc = "shutdown" =>
        /\ ~ub
        /\ \A f \in Addr :
              /\ hist[f].destroyCount <= 1
              /\ (Created(f) /\ hist[f].stamp > 0 /\ ~IsReady(f)) =>
                    /\ ~frame[f].alive
                    /\ hist[f].destroyCount = 1
                    /\ frame[f].status = "destroyed"

\* The scheduler id on top of a stack of internal ids agrees with the
\* history of activations not yet released.
TopIsLatest(st, open) ==
    /\ Len(st) = Len(open)
    /\ open # <<>> => st[Len(st)] = open[Len(open)].id

\* C17: on every thread the activation stack has one entry for each
\* activation not yet released (a release pops once, a moved-from object
\* pops nothing), and the activated scheduler is that of the most recent
\* activation not yet released, whatever the other threads do.
C17_ActivationIsStack ==
    /\ ~ub
    /\ \A t \in SystemThreads :
          /\ TopIsLatest(taskSystem.state[t].internalIdStack, taskSystem.open[t])
          /\ TopIsLatest(threadContexts_[t].internalIdStack, taskSystem.mopen[t])

\* What a failed call has to leave alone.
Unchanged ==
    /\ UNCHANGED <<threadContexts_, ub>>
    /\ UNCHANGED taskVars
    /\ taskSystem' = [taskSystem EXCEPT !.error = TRUE]

\* C18: a call that violates its contract reports an error and changes
\* neither activation stacks, schedulers and their queues, registrations
\* nor the initialized flags: an activation from a thread other than the
\* scheduler's, a deactivation or a query of the activated id with an empty
\* stack or from an unknown thread, a call with an invalid scheduler id,
\* Initialize when initialized, Shutdown and the runtime calls when not.
C18_ViolationsChangeNothing ==
    [][IF taskSystem'.error
       THEN Unchanged
       ELSE /\ \A id \in AnyIds :
                  \/ id[1] \in SystemThreads /\ id[2] <= MaxSchedulers
                  \/ \A t \in SystemThreads \cup {Stranger} :
                        /\ ~ActivateScheduler(t, id)
                        /\ ~CallGetPendingTaskCount(t, id)
            /\ \A t \in SystemThreads \cup {Stranger} :
                  /\ \A id \in AnyIds : t # id[1] => ~ActivateScheduler(t, id)
                  /\ \/ /\ t \in SystemThreads
                        /\ threadContexts_[t].internalIdStack # <<>>
                     \/ /\ ~DeactivateScheduler(t)
                        /\ ~CallGetActivatedSchedulerId(t)
            /\ \A t \in SystemThreads :
                  /\ taskSystem.state[t].initialized =>
                        \A c \in BOOLEAN : ~Initialize(t, c)
                  /\ ~taskSystem.state[t].initialized =>
                        /\ ~Shutdown(t)
                        /\ ~CreateScheduler(t)
                        /\ \A id \in AnyIds, r \in RegIds :
                              ~RegisterScheduler(t, id, r)
                  /\ \/ /\ taskSystem.state[t].initialized
                        /\ taskSystem.state[t].internalIdStack # <<>>
                     \/ ~GetCurrentSchedulerId(t)
                  /\ \A id \in AnyIds :
                        \/ id[1] = t /\ id[2] \in taskSystem.state[t].schedulers
                        \/ \A r \in RegIds : ~RegisterScheduler(t, id, r)
      ]_vars

\* A call has failed on a thread that has a scheduler activated.
C18_Witness ==
    /\ taskSystem.error
    /\ \E t \in SystemThreads :
          \/ threadContexts_[t].internalIdStack # <<>>
          \/ taskSystem.state[t].internalIdStack # <<>>

(***************************************************************************)
(* ThreadPool                                                              *)
(***************************************************************************)
Workers == 0..(threadCount - 1)
Callers == 1..MaxCallers
Handles == 1..MaxHandles
WorkerThread(w) == <<"worker", w>>
CallerThread(c) == <<"caller", c>>

\* The handle of the next coroutine the program hands to the pool.
NewHandle == Cardinality(pool.passed) + 1

\* A faulty dispatch: every untargeted call goes to the first worker.
WorkerIndex_First(next) == 0

\* Schedule(handle): the value fetch_add returned, modulo workers_.size().
WorkerIndex(next) == next % threadCount

\* A step of the pool; nothing else in the program moves.
PoolStep(p) ==
    /\ pool' = p
    /\ UNCHANGED <<threadContexts_, frame, result_, continuation_, isForgotten_,
                   nextFrame, stack, driver, stopRequested, ub, updateCount,
                   hist, drain, schedSeq, now, taskSystem, allocator>>

\* cv.notify_one() with the worker's mutex held: a waiting worker wakes.
NotifyOne(worker, w) ==
    [worker EXCEPT ![w] = IF @ = "waiting" THEN "woken" ELSE @]

\* Schedule(handle) on caller thread c, up to the fetch_add on
\* nextScheduler_.
PoolSchedule(c, h) ==
    /\ pool.running_ /\ pool.destroy.pc = "alive"
    /\ pool.caller[c].pc = "idle"
    /\ h \in Handles \ pool.passed
    /\ LET index == WorkerIndex(pool.nextScheduler_)
       IN  PoolStep([pool EXCEPT
               !.nextScheduler_ = @ + 1,
               !.caller[c] = [pc |-> "push", index |-> index, handle |-> h],
               !.order = Append(@, index),
               !.where[h] = index,
               !.passed = @ \cup {h}])

\* Schedule(workerIndex, handle) on caller thread c: the counter is not used.
PoolScheduleAt(c, w, h) ==
    /\ pool.running_ /\ pool.destroy.pc = "alive"
    /\ pool.caller[c].pc = "idle"
    /\ h \in Handles \ pool.passed
    /\ PoolStep([pool EXCEPT
           !.caller[c] = [pc |-> "push", index |-> w, handle |-> h],
           !.where[h] = w,
           !.passed = @ \cup {h}])

\* A faulty Schedule: the handle goes to the next worker's scheduler.
SchedulePush_Next(c) ==
    LET cl == pool.caller[c]
    IN  /\ cl.pc = "push"
        /\ PoolStep([pool EXCEPT
               !.sched[(cl.index + 1) % threadCount] =
                   Schedule(@, CallerThread(c), cl.handle),
               !.caller[c].pc = "notify"])

\* schedulerManager_->Schedule(schedulerId, handle) from the caller's thread.
SchedulePush(c) ==
    LET cl == pool.caller[c]
    IN  /\ cl.pc = "push"
        /\ PoolStep([pool EXCEPT
               !.sched[cl.index] = Schedule(@, CallerThread(c), cl.handle),
               !.caller[c].pc = "notify"])

\* lock_guard on the worker's mutex, notify_one, unlock.
ScheduleNotify(c) ==
    LET cl == pool.caller[c]
    IN  /\ cl.pc = "notify"
        /\ ~pool.locked[cl.index]
        /\ PoolStep([pool EXCEPT
               !.worker = NotifyOne(@, cl.index),
               !.caller[c].pc = "idle"])

\* WorkerMain: unique_lock on the worker's mutex at the top of the loop, or
\* on the way out of a wait.
WorkerLock(w) ==
    /\ pool.worker[w] \in {"lock", "woken"}
    /\ ~pool.locked[w]
    /\ PoolStep([pool EXCEPT !.locked[w] = TRUE, !.worker[w] = "pred"])

\* cv.wait(lock, pred): the predicate is evaluated with the mutex held; when
\* it is false the worker releases the mutex and blocks in one step.
WorkerPred(w) ==
    /\ pool.worker[w] = "pred"
    /\ IF ~pool.running_ \/ GetPendingTaskCount(pool.sched[w]) > 0
       THEN PoolStep([pool EXCEPT !.worker[w] = "decide"])
       ELSE PoolStep([pool EXCEPT !.worker[w] = "waiting", !.locked[w] = FALSE])

\* A condition variable may wake without a notification.
WorkerSpuriousWake(w) ==
    /\ pool.worker[w] = "waiting"
    /\ PoolStep([pool EXCEPT !.worker[w] = "woken"])

\* The test after the wait: leave when stopped with nothing pending; the
\* lock is released at the end of the block either way.
WorkerDecide(w) ==
    /\ pool.worker[w] = "decide"
    /\ IF ~pool.running_ /\ GetPendingTaskCount(pool.sched[w]) = 0
       THEN PoolStep([pool EXCEPT !.worker[w] = "exited", !.locked[w] = FALSE])
       ELSE PoolStep([pool EXCEPT !.worker[w] = "update", !.locked[w] = FALSE])

\* ActivateScheduler; Update(): CollectRemote, the swap, every handle of
\* updateHandles_ resumed, clear; DeactivateScheduler; back to the top of
\* WorkerMain's loop.  The resuming thread is worker w's: ranOn records
\* whether it is the thread of the worker the handle was passed for and the
\* owner of the scheduler that held it.
WorkerUpdate(w) ==
    /\ pool.worker[w] = "update"
    /\ LET hs == UpdateSwap(pool.sched[w]).updateHandles_
           n(h) == Cardinality({i \in 1..Len(hs) : hs[i] = h})
           here(h) == /\ pool.where[h] \in Workers
                      /\ WorkerThread(w) = WorkerThread(pool.where[h])
                      /\ WorkerThread(w) = pool.sched[w].ownerId_
       IN  PoolStep([pool EXCEPT
               !.sched[w] = UpdateClear(UpdateSwap(@)),
               !.resumes = [h \in Handles |-> @[h] + n(h)],
               !.ranOn = [h \in Handles |->
                             IF n(h) = 0 THEN @[h]
                             ELSE IF here(h) /\ @[h] # "elsewhere"
                                  THEN "target" ELSE "elsewhere"],
               !.where = [h \in Handles |-> IF n(h) = 0 THEN @[h] ELSE -1],
               !.worker[w] = "lock"])

\* ~ThreadPool, with no Schedule call in progress: running_ = false.
PoolDestroy ==
    /\ pool.running_ /\ pool.destroy.pc = "alive"
    /\ \A c \in Callers : pool.caller[c].pc = "idle"
    /\ PoolStep([pool EXCEPT
           !.running_ = FALSE,
           !.destroy = [pc |-> "notify", i |-> 0]])

\* A faulty destructor: the loop goes over the workers without notifying.
PoolDestroyNotify_Skip ==
    LET i == pool.destroy.i
    IN  /\ pool.destroy.pc = "notify"
        /\ ~pool.locked[i]
        /\ PoolStep([pool EXCEPT
               !.destroy = IF i + 1 < threadCount
                           THEN [pc |-> "notify", i |-> i + 1]
                           ELSE [pc |-> "join", i |-> 0]])

\* ~ThreadPool's first loop: lock the next worker's mutex and notify it.
PoolDestroyNotify ==
    LET i == pool.destroy.i
    IN  /\ pool.destroy.pc = "notify"
        /\ ~pool.locked[i]
        /\ PoolStep([pool EXCEPT
               !.worker = NotifyOne(@, i),
               !.destroy = IF i + 1 < threadCount
                           THEN [pc |-> "notify", i |-> i + 1]
                           ELSE [pc |-> "join", i |-> 0]])

\* ~ThreadPool's second loop: every worker thread is joined.
PoolDestroyJoin ==
    /\ pool.destroy.pc = "join"
    /\ \A w \in Workers : pool.worker[w] = "exited"
    /\ PoolStep([pool EXCEPT !.destroy.pc = "done"])

\* After ThreadPool's constructor: every worker has its scheduler and is at
\* the top of WorkerMain's loop.
InitPool ==
    /\ pool = [running_ |-> TRUE,
               nextScheduler_ |-> 0,
               sched |-> [w \in Workers |-> NewScheduler(WorkerThread(w))],
               locked |-> [w \in Workers |-> FALSE],
               worker |-> [w \in Workers |-> "lock"],
               caller |-> [c \in Callers |->
                              [pc |-> "idle", index |-> 0, handle |-> 0]],
               destroy |-> [pc |-> "alive", i |-> 0],
               order |-> <<>>,
               resumes |-> [h \in Handles |-> 0],
               where |-> [h \in Handles |-> -1],
               ranOn |-> [h \in Handles |-> "none"],
               passed |-> {}]
    /\ threadContexts_ =
          [t \in Threads |->
              [internalIdStack |-> <<>>,
               schedulers |-> [i \in Schedulers |-> NewScheduler(t)]]]
    /\ taskSystem = NoTaskSystem
    /\ frame = [a \in Addr |-> NoFrame]
    /\ result_ = [a \in Addr |-> Empty]
    /\ continuation_ = [a \in Addr |-> NullHandle]
    /\ isForgotten_ = [a \in Addr |-> FALSE]
    /\ nextFrame = 1
    /\ stack = [t \in Threads |-> <<>>]
    /\ driver = [pc |-> "idle", idx |-> 1, sched |-> <<MainThread, 1>>,
                 forget |-> FALSE, task |-> NullHandle, held |-> {}, spawns |-> 0]
    /\ stopRequested = FALSE
    /\ ub = FALSE
    /\ updateCount = [id \in SchedulerIds |-> 0]
    /\ hist = [a \in Addr |-> NoHist]
    /\ drain = [sched |-> <<MainThread, 1>>, start |-> <<>>, resumed |-> <<>>,
                stamps |-> <<>>, stamp |-> 0]
    /\ schedSeq = 0
    /\ now = 0
    /\ allocator = NoAllocator

NextPool ==
    \/ \E c \in Callers : PoolSchedule(c, NewHandle)
    \/ \E c \in Callers, w \in Workers : PoolScheduleAt(c, w, NewHandle)
    \/ \E w \in Workers : WorkerSpuriousWake(w)
    \/ PoolDestroy
    \/ \E c \in Callers : SchedulePush(c)
    \/ \E c \in Callers : ScheduleNotify(c)
    \/ \E w \in Workers : WorkerLock(w)
    \/ \E w \in Workers : WorkerPred(w)
    \/ \E w \in Workers : WorkerDecide(w)
    \/ \E w \in Workers : WorkerUpdate(w)
    \/ PoolDestroyNotify
    \/ PoolDestroyJoin


SpecPool == InitPool /\ [][NextPool]_vars

\* The next step of a caller inside Schedule, of a worker in WorkerMain, of
\* the thread that destroys the pool.
CallerStep(c) == SchedulePush(c) \/ ScheduleNotify(c)
WorkerStep(w) == WorkerLock(w) \/ WorkerPred(w) \/ WorkerDecide(w) \/ WorkerUpdate(w)
DestroyStep == PoolDestroyNotify \/ PoolDestroyJoin

\* Fair thread scheduling: a thread that can take its next step takes it,
\* and a thread that asks for a mutex again and again free gets it.  Nothing
\* obliges the program to call Schedule or to destroy the pool, and no wait
\* is obliged to wake spuriously.
SpecPoolFair ==
    /\ SpecPool
    /\ \A c \in Callers : SF_vars(CallerStep(c))
    /\ \A w \in Workers : WF_vars(WorkerStep(w))
    /\ SF_vars(DestroyStep)

\* C19: no wake-up is lost: under fair thread scheduling every handle passed
\* to Schedule while the pool runs is eventually resumed by a worker, and
\* no handle is ever resumed twice.
C19_NoLostWakeup ==
    /\ [](\A h \in Handles : pool.resumes[h] <= 1)
    /\ \A h \in Handles : (h \in pool.passed) ~> (pool.resumes[h] = 1)

\* A handle was pushed while its worker was blocked in the wait, and has
\* been resumed by now.
C19_Witness ==
    /\ pool.running_
    /\ \E h \in Handles : pool.resumes[h] = 1
    /\ \E w \in Workers : pool.worker[w] = "waiting"
    /\ \E c \in Callers : pool.caller[c].pc = "notify"
          /\ pool.worker[pool.caller[c].index] = "waiting"

\* The number of untargeted calls assigned to worker w.
Assigned(w) ==
    Cardinality({k \in 1..Len(pool.order) : pool.order[k] = w})

\* C20: the k-th untargeted Schedule call, in the order of the increments
\* of the shared counter, is assigned to worker k mod N (k from 0), so the
\* numbers of handles assigned to two workers never differ by more than 1,
\* however many callers there are.
C20_RoundRobin ==
    /\ \A k \in 1..Len(pool.order) : pool.order[k] = (k - 1) % threadCount
    /\ \A v, w \in Workers : Assigned(v) - Assigned(w) <= 1

\* More untargeted calls than workers, from two callers that are inside
\* Schedule at the same time.
C20_Witness ==
    /\ Len(pool.order) > threadCount
    /\ \A c \in Callers : pool.caller[c].pc = "push"

\* C21: a handle is resumed on the thread of the worker it was scheduled
\* for (by index, or by the counter) and on no other thread, and that thread
\* is the owner of the scheduler that queued it.
C21_ResumedOnItsWorker ==
    \A h \in Handles :
        /\ pool.ranOn[h] # "elsewhere"
        /\ pool.resumes[h] > 0 <=> pool.ranOn[h] = "target"

\* Every handle has been resumed; some were passed with the counter and
\* some with a worker index.
C21_Witness ==
    /\ \A h \in Handles : pool.ranOn[h] = "target"
    /\ pool.order # <<>> /\ Len(pool.order) < MaxHandles

\* C22: a worker leaves its loop only when running_ is false and its
\* scheduler has nothing pending; every handle passed before the destruction
\* began has been resumed when the destructor returns; and once running_ is
\* false every worker exits and the destructor's join returns.
C22_ShutdownDrains ==
    /\ [](\A w \in Workers :
            pool.worker[w] = "exited" =>
                ~pool.running_ /\ GetPendingTaskCount(pool.sched[w]) = 0)
    /\ [](pool.destroy.pc = "done" =>
            \A h \in pool.passed : pool.resumes[h] = 1)
    /\ (~pool.running_) ~>
            (pool.destroy.pc = "done" /\ \A w \in Workers : pool.worker[w] = "exited")

\* The destructor has returned after every handle was passed to the pool.
C22_Witness ==
    /\ pool.destroy.pc = "done"
    /\ pool.passed = Handles

(***************************************************************************)
(* RunOnThreadPool                                                         *)
(***************************************************************************)
\* The thread that starts a RunOnThreadPool call: the host's thread (-1),
\* or the thread of worker w while a task runs in its Update().  The
\* scheduler activated on it carries the same number.
Starters == {-1} \cup Workers
HostThread == <<"host", 0>>
StarterThread(s) == IF s = -1 THEN HostThread ELSE WorkerThread(s)

\* The scheduler with number id: the host's, or a worker's.
SchedulerAt(p, id) == IF id = -1 THEN p.own ELSE p.sched[id]

\* A faulty switch back: always to the host's scheduler.
SwitchToSelectedScheduler_Host(p, thread, id, h) ==
    [p EXCEPT !.own = Schedule(@, thread, h)]

\* co_await SwitchToSelectedScheduler(id) on `thread`: await_suspend calls
\* Schedule(id, handle) of the scheduler manager; nobody is notified.
SwitchToSelectedScheduler(p, thread, id, h) ==
    IF id = -1
    THEN [p EXCEPT !.own = Schedule(@, thread, h)]
    ELSE [p EXCEPT !.sched[id] = Schedule(@, thread, h)]

\* RunOnThreadPool(fn) called on starter s: GetActivatedSchedulerId(), then
\* co_await SwitchToThreadPool() up to the fetch_add of ThreadPool::Schedule.
RunOnThreadPool(s, h) ==
    /\ pool.running_
    /\ pool.starter[s].pc = "idle"
    /\ s \in Workers => pool.worker[s] = "resume"
    /\ h \in Handles /\ pool.run[h].stage = "new"
    /\ \A g \in Handles : g < h => pool.run[g].stage # "new"
    /\ LET index == WorkerIndex(pool.nextScheduler_)
       IN  PoolStep([pool EXCEPT
               !.nextScheduler_ = @ + 1,
               !.starter[s] = [pc |-> "push", index |-> index, handle |-> h],
               !.run[h] = [@ EXCEPT !.stage = "topool", !.orig = s]])

\* ThreadPool::Schedule, continued: the push on the chosen worker's scheduler
\* from the starter's thread.
RunPush(s) ==
    LET st == pool.starter[s]
    IN  /\ st.pc = "push"
        /\ PoolStep([pool EXCEPT
               !.sched[st.index] = Schedule(@, StarterThread(s), st.handle),
               !.starter[s].pc = "notify"])

\* ThreadPool::Schedule, continued: lock_guard, notify_one.
RunNotify(s) ==
    LET st == pool.starter[s]
    IN  /\ st.pc = "notify"
        /\ ~pool.locked[st.index]
        /\ PoolStep([pool EXCEPT
               !.worker = NotifyOne(@, st.index),
               !.starter[s].pc = "idle"])

\* handle.resume() of a RunOnThreadPool coroutine in an Update() of scheduler
\* id on that scheduler's thread: after SwitchToThreadPool it calls fn and
\* switches to the original scheduler; after that switch it returns, and
\* its final awaiter resumes the awaiting coroutine on the same thread.
ResumeRun(p, id, h) ==
    LET r == p.run[h]
    IN  IF r.stage = "topool"
        THEN SwitchToSelectedScheduler(
                 [p EXCEPT !.run[h] = [@ EXCEPT !.stage = "toback", !.fnOn = id]],
                 StarterThread(id), r.orig, h)
        ELSE [p EXCEPT !.run[h] =
                 [@ EXCEPT !.stage = "done",
                           !.back = IF /\ id = r.orig
                                       /\ StarterThread(id) = SchedulerAt(p, r.orig).ownerId_
                                    THEN "owner" ELSE "other"]]

\* Update()'s loop over updateHandles_.
RECURSIVE ResumeEach(_, _, _)
ResumeEach(p, id, hs) ==
    IF hs = <<>> THEN p
    ELSE ResumeEach(ResumeRun(p, id, Head(hs)), id, Tail(hs))

\* WorkerMain: ActivateScheduler; Update() up to its loop.
RunWorkerCollect(w) ==
    /\ pool.worker[w] = "update"
    /\ PoolStep([pool EXCEPT !.sched[w] = UpdateSwap(@), !.worker[w] = "resume"])

\* WorkerMain: Update()'s loop and clear; DeactivateScheduler.
RunWorkerResume(w) ==
    /\ pool.worker[w] = "resume"
    /\ pool.starter[w].pc = "idle"
    /\ LET q == ResumeEach(pool, w, pool.sched[w].updateHandles_)
       IN  PoolStep([q EXCEPT !.sched[w] = UpdateClear(@), !.worker[w] = "lock"])

\* The host calls Update() of its scheduler on its own thread.
HostUpdate ==
    /\ pool.starter[-1].pc = "idle"
    /\ GetPendingTaskCount(pool.own) > 0
    /\ LET p == [pool EXCEPT !.own = UpdateSwap(@)]
           q == ResumeEach(p, -1, p.own.updateHandles_)
       IN  PoolStep([q EXCEPT !.own = UpdateClear(@)])

\* A running pool, the host's scheduler, and no call made yet.
InitRun ==
    /\ pool = [running_ |-> TRUE,
               nextScheduler_ |-> 0,
               sched |-> [w \in Workers |-> NewScheduler(WorkerThread(w))],
               own |-> NewScheduler(HostThread),
               locked |-> [w \in Workers |-> FALSE],
               worker |-> [w \in Workers |-> "lock"],
               starter |-> [s \in Starters |->
                              [pc |-> "idle", index |-> 0, handle |-> 0]],
               run |-> [h \in Handles |->
                          [stage |-> "new", orig |-> -1, fnOn |-> -1,
                           back |-> "none"]]]
    /\ threadContexts_ =
          [t \in Threads |->
              [internalIdStack |-> <<>>,
               schedulers |-> [i \in Schedulers |-> NewScheduler(t)]]]
    /\ taskSystem = NoTaskSystem
    /\ frame = [a \in Addr |-> NoFrame]
    /\ result_ = [a \in Addr |-> Empty]
    /\ continuation_ = [a \in Addr |-> NullHandle]
    /\ isForgotten_ = [a \in Addr |-> FALSE]
    /\ nextFrame = 1
    /\ stack = [t \in Threads |-> <<>>]
    /\ driver = [pc |-> "idle", idx |-> 1, sched |-> <<MainThread, 1>>,
                 forget |-> FALSE, task |-> NullHandle, held |-> {}, spawns |-> 0]
    /\ stopRequested = FALSE
    /\ ub = FALSE
    /\ updateCount = [id \in SchedulerIds |-> 0]
    /\ hist = [a \in Addr |-> NoHist]
    /\ drain = [sched |-> <<MainThread, 1>>, start |-> <<>>, resumed |-> <<>>,
                stamps |-> <<>>, stamp |-> 0]
    /\ schedSeq = 0
    /\ now = 0
    /\ allocator = NoAllocator

NextRun ==
    \/ \E s \in Starters, h \in Handles : RunOnThreadPool(s, h)
    \/ \E s \in Starters : RunPush(s)
    \/ \E s \in Starters : RunNotify(s)
    \/ \E w \in Workers : WorkerLock(w)
    \/ \E w \in Workers : WorkerPred(w)
    \/ \E w \in Workers : WorkerSpuriousWake(w)
    \/ \E w \in Workers : WorkerDecide(w)
    \/ \E w \in Workers : RunWorkerCollect(w)
    \/ \E w \in Workers : RunWorkerResume(w)
    \/ HostUpdate

SpecRun == InitRun /\ [][NextRun]_vars

Buckets == 1..MaxBuckets
FreeThreads == 1..MaxFreeThreads
MaxSlabs == MaxLive + MaxFreeThreads
Blocks == Buckets \X (1..MaxSlabs) \X (0..(SlabBlockCount - 1))
NullBlock == <<0, 0, 0>>

\* PoolState{}: an empty free list and no slab.
NewPoolState == [freeList |-> <<>>, slabs |-> 0]

\* A faulty push: the node goes to the far end of the free list.
PushFree_Back(freeList, ptr) == Append(freeList, ptr)

\* node->next = freeList; freeList = node.
PushFree(freeList, ptr) == <<ptr>> \o freeList

\* CollectRemoteFree's loop: from the head on, each node goes to the free
\* list of its bucket.
RECURSIVE CollectEach(_, _)
CollectEach(pools, nodes) ==
    IF nodes = <<>> THEN pools
    ELSE LET n == Head(nodes)
         IN  CollectEach(
                 [pools EXCEPT ![n.poolIndex].freeList = PushFree(@, n.ptr)],
                 Tail(nodes))

\* A faulty CollectRemoteFree: the head is read, not exchanged.
CollectRemoteFree_Load(a) ==
    [a EXCEPT !.pools = CollectEach(@, a.remoteFreeHead)]

\* CollectRemoteFree: remoteFreeHead.exchange(nullptr), then the loop.
CollectRemoteFree(a) ==
    [a EXCEPT !.pools = CollectEach(@, a.remoteFreeHead),
              !.remoteFreeHead = <<>>]

\* A faulty AllocateNewSlab: the other blocks are not put on the free list.
AllocateNewSlab_NoFreeList(a, k) ==
    LET s == a.pools[k].slabs + 1
    IN  [a |-> [a EXCEPT !.pools[k].slabs = s],
         ptr |-> <<k, s, 0>>]

\* AllocateNewSlab: a new slab; its first block is returned, the others are
\* pushed on the free list one after another.
AllocateNewSlab(a, k) ==
    LET s == a.pools[k].slabs + 1
        RECURSIVE PushBlocks(_, _)
        PushBlocks(freeList, i) ==
            IF i >= SlabBlockCount THEN freeList
            ELSE PushBlocks(PushFree(freeList, <<k, s, i>>), i + 1)
    IN  [a |-> [a EXCEPT !.pools[k].slabs = s,
                         !.pools[k].freeList = PushBlocks(@, 1)],
         ptr |-> <<k, s, 0>>]

\* The head of bucket k's free list is taken.
PopFree(a, k) ==
    [a |-> [a EXCEPT !.pools[k].freeList = Tail(@)],
     ptr |-> Head(a.pools[k].freeList)]

\* A faulty AllocateFromPool: with an empty free list it grows at once.
AllocateFromPool_GrowFirst(a, k) ==
    IF a.pools[k].freeList # <<>> THEN PopFree(a, k)
    ELSE AllocateNewSlab(a, k)

\* AllocateFromPool: the free list; if it is empty the remote list is
\* collected and the free list tried again; then a new slab.
AllocateFromPool(a, k) ==
    IF a.pools[k].freeList # <<>> THEN PopFree(a, k)
    ELSE LET c == CollectRemoteFree(a)
         IN  IF c.pools[k].freeList # <<>> THEN PopFree(c, k)
             ELSE AllocateNewSlab(c, k)

\* A step of the allocator and its users; nothing else in the program moves.
AllocStep(a) ==
    /\ allocator' = a
    /\ UNCHANGED <<threadContexts_, frame, result_, continuation_, isForgotten_,
                   nextFrame, stack, driver, stopRequested, ub, updateCount,
                   hist, drain, schedSeq, now, pool, taskSystem>>

\* Without x.
Without(q, x) == SelectSeq(q, LAMBDA y : y # x)

\* The program holds at most MaxLive blocks at a time, and of the buckets
\* after the first at most one each.
LiveLimit(k) == IF k = 1 THEN MaxLive ELSE 1

\* What the history of the allocator records: the owner's own frees still
\* on a free list ("lifo"), the number of Allocate calls ("calls"), the
\* same since remote blocks were last collected into the bucket, the
\* blocks on the remote list when an allocation-only run began ("run"), the
\* blocks freed remotely and not handed out since ("owed").
Watches == {"lifo", "calls", "run", "owed"}
Watch(w) == allocator.watch = w

\* An allocation from bucket k finds its free list empty and collects a
\* block of bucket j from the remote list.
CollectsInto(a, k, j) ==
    /\ a.pools[k].freeList = <<>>
    /\ \E i \in DOMAIN a.remoteFreeHead : a.remoteFreeHead[i].poolIndex = j

\* Allocate(size) on the owner thread, for a size of bucket k.  The program
\* keeps the pointer in `live`.  History: calls counts the calls up to
\* MaxAllocs, clash tells that a pointer in use was returned, owed,
\* localFreed and sinceCollect forget the block, sinceCollect starts again
\* for a bucket that receives collected blocks, an allocation-only run notes
\* its progress.
Allocate(k) ==
    /\ Cardinality(allocator.live) < MaxLive
    /\ Cardinality({b \in allocator.live : b[1] = k}) < LiveLimit(k)
    /\ allocator.run.on => k = allocator.run.bucket
    /\ LET r == AllocateFromPool(allocator, k)
           a == r.a
       IN  AllocStep([a EXCEPT
               !.live = @ \cup {r.ptr},
               !.clash = @ \/ r.ptr \in allocator.live,
               !.calls[k] = IF Watch("calls") /\ @ < MaxAllocs THEN @ + 1 ELSE @,
               !.owed = @ \ {r.ptr},
               !.localFreed[k] = Without(@, r.ptr),
               !.sinceCollect = [j \in Buckets |->
                                   IF CollectsInto(allocator, k, j) THEN <<>>
                                   ELSE IF j = k THEN Without(@[j], r.ptr)
                                   ELSE @[j]],
               !.run = IF @.on
                       THEN [@ EXCEPT !.want = @ \ {r.ptr},
                                      !.left = IF @ > 0 THEN @ - 1 ELSE 0]
                       ELSE @])

\* A faulty Deallocate: the bucket is found from the size passed.
MetaPoolIndex_FromSize(ptr, size) == size

\* meta->poolIndex: the bucket that Allocate wrote into the block's header.
\* A block is named by its bucket, slab and place in the slab; size is the
\* bucket that the size passed to Deallocate falls into, and is not used.
MetaPoolIndex(ptr, size) == ptr[1]

\* Deallocate(ptr, size) on the owner thread: the block goes to the head of
\* its bucket's free list.
Deallocate(ptr, size) ==
    /\ ptr \in allocator.live
    /\ ~allocator.run.on
    /\ LET poolIndex == MetaPoolIndex(ptr, size)
       IN  AllocStep([allocator EXCEPT
               !.live = @ \ {ptr},
               !.pools[poolIndex].freeList = PushFree(@, ptr),
               !.localFreed[poolIndex] = IF Watch("lifo") THEN Append(@, ptr) ELSE @,
               !.sinceCollect[poolIndex] = IF Watch("lifo") THEN Append(@, ptr) ELSE @])

\* Deallocate(ptr, size) on another thread, up to the call of PushRemoteFree:
\* the owner and the bucket are read from the block's header.
RemoteDeallocate(t, ptr, size) ==
    /\ ptr \in allocator.live
    /\ allocator.freer[t].pc = "idle"
    /\ AllocStep([allocator EXCEPT
           !.live = @ \ {ptr},
           !.freer[t] = [pc |-> "push", ptr |-> ptr,
                         poolIndex |-> MetaPoolIndex(ptr, size)]])

\* PushRemoteFree: the compare-exchange that makes the node the new head.
PushRemoteFree(t) ==
    LET f == allocator.freer[t]
    IN  /\ f.pc = "push"
        /\ AllocStep([allocator EXCEPT
               !.remoteFreeHead = <<[ptr |-> f.ptr, poolIndex |-> f.poolIndex]>> \o @,
               !.owed = IF Watch("owed") THEN @ \cup {f.ptr} ELSE @,
               !.freer[t] = [pc |-> "idle", ptr |-> NullBlock, poolIndex |-> 0]])

\* No allocation-only run is observed.
NoRun == [on |-> FALSE, bucket |-> 1, want |-> {}, left |-> 0, slabs |-> 0]

\* The owner starts to allocate from bucket k without deallocating: noted
\* are the blocks of the bucket on the remote list, the length of the free
\* list plus their number, and the number of slabs.
BeginRun(k) ==
    LET want == {allocator.remoteFreeHead[i].ptr : i \in
                    {j \in DOMAIN allocator.remoteFreeHead :
                        allocator.remoteFreeHead[j].poolIndex = k}}
    IN  /\ Watch("run")
        /\ ~allocator.run.on
        /\ want # {}
        /\ AllocStep([allocator EXCEPT
               !.run = [on |-> TRUE, bucket |-> k, want |-> want,
                        left |-> Len(allocator.pools[k].freeList) + Cardinality(want),
                        slabs |-> allocator.pools[k].slabs]])

\* The owner goes back to allocating and deallocating as it likes.
EndRun ==
    /\ allocator.run.on
    /\ AllocStep([allocator EXCEPT !.run = NoRun])

\* PoolAllocator(), and the owner's ThreadLocalPool as GetOrCreateThreadPool
\* makes it.
InitAlloc ==
    /\ allocator \in
         {[pools |-> [k \in Buckets |-> NewPoolState],
                    watch |-> w,
                    remoteFreeHead |-> <<>>,
                    live |-> {},
                    freer |-> [t \in FreeThreads |->
                                 [pc |-> "idle", ptr |-> NullBlock, poolIndex |-> 0]],
                    clash |-> FALSE,
                    calls |-> [k \in Buckets |-> 0],
                    owed |-> {},
                    localFreed |-> [k \in Buckets |-> <<>>],
                    sinceCollect |-> [k \in Buckets |-> <<>>],
                    run |-> NoRun] : w \in Watches}
    /\ pool = NoPool
    /\ threadContexts_ =
          [t \in Threads |->
              [internalIdStack |-> <<>>,
               schedulers |-> [i \in Schedulers |-> NewScheduler(t)]]]
    /\ taskSystem = NoTaskSystem
    /\ frame = [a \in Addr |-> NoFrame]
    /\ result_ = [a \in Addr |-> Empty]
    /\ continuation_ = [a \in Addr |-> NullHandle]
    /\ isForgotten_ = [a \in Addr |-> FALSE]
    /\ nextFrame = 1
    /\ stack = [t \in Threads |-> <<>>]
    /\ driver = [pc |-> "idle", idx |-> 1, sched |-> <<MainThread, 1>>,
                 forget |-> FALSE, task |-> NullHandle, held |-> {}, spawns |-> 0]
    /\ stopRequested = FALSE
    /\ ub = FALSE
    /\ updateCount = [id \in SchedulerIds |-> 0]
    /\ hist = [a \in Addr |-> NoHist]
    /\ drain = [sched |-> <<MainThread, 1>>, start |-> <<>>, resumed |-> <<>>,
                stamps |-> <<>>, stamp |-> 0]
    /\ schedSeq = 0
    /\ now = 0

NextAlloc ==
    \/ \E k \in Buckets : Allocate(k)
    \/ \E ptr \in Blocks, size \in Buckets : Deallocate(ptr, size)
    \/ \E t \in FreeThreads, ptr \in Blocks, size \in Buckets :
          RemoteDeallocate(t, ptr, size)
    \/ \E t \in FreeThreads : PushRemoteFree(t)
    \/ \E k \in Buckets : BeginRun(k)
    \/ EndRun

SpecAlloc == InitAlloc /\ [][NextAlloc]_vars

\* C24: on the owner thread Allocate returns, for each bucket, the block
\* that the thread deallocated most recently in that bucket and that has not
\* been handed out since; p = Allocate(s); Deallocate(p, s); q = Allocate(s)
\* gives q = p every time.
C24_LocalReuseIsLifo ==
    [][\A k \in Buckets :
          (/\ Watch("lifo")
           /\ allocator.localFreed[k] # <<>>
           /\ Allocate(k))
          => LET f == allocator.localFreed[k]
             IN  /\ f[Len(f)] \notin allocator.live
                 /\ allocator'.live = allocator.live \cup {f[Len(f)]}
      ]_vars

\* C24, amended: the same for the blocks the thread deallocated since
\* remote-freed blocks were last collected into the bucket; collected blocks
\* lie above the blocks freed before and are handed out first.
C24_LocalReuseIsLifoSinceCollect ==
    [][\A k \in Buckets :
          (/\ Watch("lifo")
           /\ allocator.sinceCollect[k] # <<>>
           /\ Allocate(k))
          => LET f == allocator.sinceCollect[k]
             IN  /\ f[Len(f)] \notin allocator.live
                 /\ allocator'.live = allocator.live \cup {f[Len(f)]}
      ]_vars

\* Two blocks freed by the owner lie on a free list above a collected block
\* and a block that the owner freed before the collection.
C24_Witness ==
    /\ Watch("lifo")
    /\ Len(allocator.sinceCollect[1]) = 2
    /\ Len(allocator.localFreed[1]) = 3
    /\ Len(allocator.pools[1].freeList) > 3

\* The allocator with the history of the blocks owed to the owner.  The
\* owner goes on allocating from every bucket and deallocating, and a thread
\* that began a remote free finishes its push.
InitAllocOwed == InitAlloc /\ Watch("owed")

NextAllocOwed ==
    \/ \E k \in Buckets : Allocate(k)
    \/ \E ptr \in Blocks, size \in Buckets : Deallocate(ptr, size)
    \/ \E t \in FreeThreads, ptr \in Blocks, size \in Buckets :
          RemoteDeallocate(t, ptr, size)
    \/ \E t \in FreeThreads : PushRemoteFree(t)

SpecAllocFair ==
    /\ InitAllocOwed
    /\ [][NextAllocOwed]_vars
    /\ \A k \in Buckets : SF_vars(Allocate(k))
    /\ WF_vars(\E ptr \in Blocks, size \in Buckets : Deallocate(ptr, size))
    /\ \A t \in FreeThreads : WF_vars(PushRemoteFree(t))

\* C25: a block that another thread has deallocated is returned to the
\* owner by Allocate after a bounded number of the owner's allocations of
\* the block's bucket, however the owner's allocations and its own
\* deallocations interleave; so while the owner goes on allocating, the
\* block does not stay on a list for ever.
C25_RemoteFreedComesBack ==
    \A b \in Blocks : (b \in allocator.owed) ~> (b \notin allocator.owed)

\* C26: the owner allocates from one bucket without deallocating while k
\* blocks of the bucket, freed by other threads, lie on the remote list and
\* m blocks on the bucket's free list: the k blocks are among the first
\* m + k blocks returned, and no slab is added before all of them have been
\* returned.
C26_RemoteReusedBeforeGrowth ==
    allocator.run.on =>
        /\ allocator.run.left = 0 => allocator.run.want = {}
        /\ allocator.run.want # {} =>
               allocator.pools[allocator.run.bucket].slabs = allocator.run.slabs

\* A run that began with blocks on both lists has had all the remote-freed
\* blocks back with its last allocation, and the bucket has not grown.
C26_Witness ==
    /\ allocator.run.on
    /\ allocator.run.left = 0
    /\ allocator.run.want = {}
    /\ allocator.pools[allocator.run.bucket].slabs = allocator.run.slabs
    /\ allocator.run.slabs * SlabBlockCount > Cardinality(allocator.live)

\* No block of bucket k lies on the remote list.
NoRemoteFor(a, k) ==
    \A i \in DOMAIN a.remoteFreeHead : a.remoteFreeHead[i].poolIndex # k

\* C27: a bucket gets a new slab only in an allocation that finds the
\* bucket's free list empty and, the remote list collected, still empty; so
\* after N calls of Allocate for a bucket, whatever was deallocated in
\* between, the bucket has at most ceil(N / SlabBlockCount) slabs.
C27_SlabGrowthBounded ==
    /\ [](\A k \in Buckets :
            (Watch("calls") /\ allocator.calls[k] < MaxAllocs)
            => allocator.pools[k].slabs * SlabBlockCount
                  <= allocator.calls[k] + SlabBlockCount - 1)
    /\ [][\A k \in Buckets :
             allocator'.pools[k].slabs # allocator.pools[k].slabs
             => /\ Allocate(k)
                /\ allocator.pools[k].freeList = <<>>
                /\ NoRemoteFor(allocator, k)
                /\ allocator'.remoteFreeHead = <<>>
                /\ allocator'.pools[k].slabs = allocator.pools[k].slabs + 1]_vars

\* The third call for a bucket has added its second slab.
C27_Witness ==
    /\ Watch("calls")
    /\ allocator.calls[1] = SlabBlockCount + 1
    /\ allocator.pools[1].slabs = 2

\* How often block b lies on the free lists and the remote list.
Occurrences(a, b) ==
    Cardinality(UNION {{<<k, i>> : i \in {j \in DOMAIN a.pools[k].freeList :
                                              a.pools[k].freeList[j] = b}} :
                       k \in Buckets})
    + Cardinality({i \in DOMAIN a.remoteFreeHead : a.remoteFreeHead[i].ptr = b})

\* C28: however allocations and deallocations of the owner, deallocations
\* by other threads and collections interleave, no block lies twice on the
\* free lists and the remote list, no block in use lies on any of them, and
\* Allocate never returns a block that is in use.
C28_NoBlockTwice ==
    /\ ~allocator.clash
    /\ \A b \in Blocks :
          /\ Occurrences(allocator, b) <= 1
          /\ b \in allocator.live => Occurrences(allocator, b) = 0

\* A block that another thread freed has been collected and lies on its
\* bucket's free list, another one is on the remote list, and the owner
\* holds a block.
C28_Witness ==
    /\ \E b \in allocator.owed :
          \E i \in DOMAIN allocator.pools[b[1]].freeList :
              allocator.pools[b[1]].freeList[i] = b
    /\ allocator.remoteFreeHead # <<>>
    /\ allocator.live # {}

\* The Schedule calls on the host's scheduler whose handle Update() has not
\* resumed yet.
AwaitingResumption ==
    schedSeq - SumOver([a \in Addr |-> hist[a].resumes], Addr)

\* C29: when the owner thread looks between two Update() calls,
\* GetPendingTaskCount is the number of handles that were scheduled on the
\* scheduler, by the owner or by another thread, and have not been resumed
\* yet; so it is 0 exactly when no handle awaits resumption, and 0 for a
\* scheduler on which nothing was ever scheduled.
C29_PendingCountIsAwaiting ==
    /\ driver.pc = "idle" =>
          GetPendingTaskCount(GetScheduler(<<MainThread, 1>>)) = AwaitingResumption
    /\ schedSeq = 0 => GetPendingTaskCount(GetScheduler(<<MainThread, 1>>)) = 0

\* After an Update() the host sees two handles pending, one that the owner
\* scheduled and one that another thread pushed.
C29_Witness ==
    /\ driver.pc = "idle"
    /\ TotalUpdates > 0
    /\ Len(GetScheduler(<<MainThread, 1>>).handles_) = 1
    /\ Len(GetScheduler(<<MainThread, 1>>).remoteHead_) = 1
    /\ GetPendingTaskCount(GetScheduler(<<MainThread, 1>>)) = 2

\* The handle was pushed on the remote list by another thread.
ArrivedRemotely(h) == frame[h].prog.type = "switch"

\* C30: in one Update() the handles that came through the remote list,
\* collected when the Update() began, are resumed before every handle that
\* the owner thread added itself since the Update() before.  Update()
\* resumes updateHandles_ from its first handle on.
C30_RemoteBeforeLocal ==
    (driver.pc = "update" /\ driver.idx = 1) =>
        \A i, j \in DOMAIN drain.start :
            (ArrivedRemotely(drain.start[i]) /\ ~ArrivedRemotely(drain.start[j]))
            => i < j

\* C32: Schedule changes handles_ of the scheduler if and only if the caller
\* is the scheduler's owner thread; a call by another thread changes the
\* remote list only and leaves handles_ and updateHandles_ as they are.
\* The owner calls Schedule from a coroutine it runs (co_yield), the other
\* thread from the coroutine it starts (RemoteSwitch).
C32_OnlyOwnerTouchesLocal ==
    [][schedSeq' # schedSeq =>
         LET old == GetScheduler(<<MainThread, 1>>)
             new == GetScheduler(<<MainThread, 1>>)'
         IN  IF stack[MainThread] = <<>>
             THEN /\ RemoteSwitch
                  /\ old.ownerId_ # OtherThread
                  /\ new.handles_ = old.handles_
                  /\ new.updateHandles_ = old.updateHandles_
                  /\ new.remoteHead_ = <<nextFrame>> \o old.remoteHead_
             ELSE /\ old.ownerId_ = MainThread
                  /\ new.handles_ = Append(old.handles_,
                                          stack[MainThread][Len(stack[MainThread])])
                  /\ new.updateHandles_ = old.updateHandles_
                  /\ new.remoteHead_ = old.remoteHead_]_vars

\* Before any Update() the owner has a handle of its own in handles_ and
\* another thread's handle is on the remote list.
C32_Witness ==
    /\ TotalUpdates = 0
    /\ Len(GetScheduler(<<MainThread, 1>>).handles_) >= 1
    /\ Len(GetScheduler(<<MainThread, 1>>).remoteHead_) >= 1

\* C33: no promise has a continuation set and isForgotten_ true at once: a
\* forgotten task is never awaited, and an awaited task is never marked
\* forgotten.
C33_ForgottenOrAwaited ==
    \A a \in Addr : ~(continuation_[a] # NullHandle /\ isForgotten_[a])

\* One unfinished task is awaited and another one is forgotten.
C33_Witness ==
    \E a, b \in Addr :
        /\ frame[a].alive /\ ~IsReady(a) /\ continuation_[a] # NullHandle
        /\ frame[b].alive /\ ~IsReady(b) /\ isForgotten_[b]

\* Block b lies on the free list of bucket k.
OnFreeList(a, k, b) ==
    \E i \in DOMAIN a.pools[k].freeList : a.pools[k].freeList[i] = b

\* C35: a deallocated block goes back to the bucket it was allocated from,
\* whatever size Deallocate is given and whichever thread calls it: the
\* owner's call pushes it on the local free list of that bucket, another
\* thread's call pushes it on the remote list only, with its bucket, and
\* changes no local free list, and collection links it into the free list
\* of that bucket; so a block never lies on another bucket's list.
C35_BlockReturnsToItsBucket ==
    /\ [](/\ \A k \in Buckets : \A b \in Blocks :
               OnFreeList(allocator, k, b) => b[1] = k
          /\ \A i \in DOMAIN allocator.remoteFreeHead :
               allocator.remoteFreeHead[i].poolIndex
                   = allocator.remoteFreeHead[i].ptr[1])
    /\ [][\A ptr \in allocator.live : \A size \in Buckets :
             /\ Deallocate(ptr, size) =>
                   /\ allocator'.pools =
                         [allocator.pools EXCEPT
                             ![ptr[1]].freeList = <<ptr>> \o @]
                   /\ allocator'.remoteFreeHead = allocator.remoteFreeHead
             /\ \A t \in FreeThreads :
                   RemoteDeallocate(t, ptr, size) =>
                       /\ allocator'.pools = allocator.pools
                       /\ allocator'.remoteFreeHead = allocator.remoteFreeHead
                       /\ allocator'.freer[t].poolIndex = ptr[1]]_vars
    /\ [][\A t \in FreeThreads :
             PushRemoteFree(t) =>
                 /\ allocator'.pools = allocator.pools
                 /\ allocator'.remoteFreeHead =
                       <<[ptr |-> allocator.freer[t].ptr,
                          poolIndex |-> allocator.freer[t].ptr[1]]>>
                       \o allocator.remoteFreeHead]_vars

\* A block of the second bucket that another thread freed has been
\* collected into the second bucket's free list, and the first block of the
\* first bucket, freed by the owner, lies on the first bucket's.
C35_Witness ==
    /\ \E b \in allocator.owed : b[1] = 2 /\ OnFreeList(allocator, 2, b)
    /\ OnFreeList(allocator, 1, <<1, 1, 0>>)

\* C36: every handle in a scheduler's handles_, remote list or
\* updateHandles_ refers to a frame that has not been destroyed, whatever
\* tasks are created, yield, await, fail, are dropped or forgotten and
\* whatever Update() calls are made; so no resume() or destroy() reaches a
\* destroyed frame.
C36_QueuedHandlesAlive ==
    /\ \A id \in SchedulerIds : \A h \in QueuedHandles(id) : frame[h].alive
    /\ ~ub

(***************************************************************************)
(* Frame memory: Promise::operator new and operator delete between         *)
(* TaskSystem::Initialize and TaskSystem::Shutdown                         *)
(***************************************************************************)
Mem == 1..MaxMem

\* Where a frame's memory comes from and goes to: the system allocator
\* (::operator new and ::operator delete), or the PoolAllocator that the
\* n-th Initialize made.
SystemAllocator == 0

\* A step of the host as far as frame memory goes; u tells of undefined
\* behaviour.
FrameStep(ts, u) ==
    /\ taskSystem' = ts
    /\ ub' = (ub \/ u)
    /\ UNCHANGED threadContexts_
    /\ UNCHANGED taskVars

\* A faulty operator delete: the memory goes to where it came from.
PromiseDelete_Origin(ts, f, via) == ts.origin[f]

\* Promise::operator delete, called with the TaskAllocator `via` that
\* GetAllocator() returns: ::operator delete when the TaskSystem is not
\* initialized, else via.
PromiseDelete(ts, f, via) ==
    IF ~ts.initialized THEN SystemAllocator ELSE via

\* The frame is released; a release that does not go to the allocator the
\* memory came from, or that comes after that allocator's end, is undefined.
Release(ts, f, via) ==
    [ts EXCEPT !.via[f] = PromiseDelete(ts, f, via),
               !.released = @ \cup {f},
               !.queued = @ \ {f},
               !.late = @ \cup (IF ts.origin[f] \in ts.deleted THEN {f} ELSE {})]

Mismatch(ts, f) ==
    ts.via[f] # ts.origin[f] \/ f \in ts.late

\* TaskSystem::Initialize with the default configuration: a new
\* PoolAllocator, the default scheduler, initialized = true.
SystemInitialize ==
    /\ ~taskSystem.crashed
    /\ ~taskSystem.initialized
    /\ taskSystem.inits < MaxInits
    /\ FrameStep([taskSystem EXCEPT
           !.initialized = TRUE,
           !.inits = @ + 1,
           !.allocator = taskSystem.inits + 1], FALSE)

\* A coroutine function is called: Promise::operator new takes the frame
\* from the system allocator when the TaskSystem is not initialized, else
\* from GetAllocator().  The coroutine runs to its end, or it does
\* co_yield, which needs a scheduler, and its handle is queued.
PromiseNew(f, yields) ==
    /\ ~taskSystem.crashed
    /\ f \notin taskSystem.allocated
    /\ \A g \in Mem : g < f => g \in taskSystem.allocated
    /\ yields => taskSystem.initialized
    /\ FrameStep([taskSystem EXCEPT
           !.allocated = @ \cup {f},
           !.origin[f] = IF taskSystem.initialized THEN taskSystem.allocator
                         ELSE SystemAllocator,
           !.queued = IF yields THEN @ \cup {f} ELSE @], FALSE)

\* Update() resumes the queued coroutine, which runs to its end; its Task
\* is still held.
FrameUpdate(f) ==
    /\ ~taskSystem.crashed
    /\ taskSystem.initialized
    /\ f \in taskSystem.queued
    /\ FrameStep([taskSystem EXCEPT !.queued = @ \ {f}], FALSE)

\* ~Task of a coroutine that is not queued: handle_.destroy(), and with it
\* operator delete.  After undefined behaviour the program crashes or goes
\* on.
TaskDestroy(f, crash) ==
    /\ ~taskSystem.crashed
    /\ f \in taskSystem.allocated \ taskSystem.released
    /\ f \notin taskSystem.queued
    /\ LET ts == Release(taskSystem, f, taskSystem.allocator)
       IN  /\ crash => Mismatch(ts, f)
           /\ FrameStep([ts EXCEPT !.crashed = crash], Mismatch(ts, f))

\* operator delete on each frame of q in turn.
RECURSIVE ReleaseEach(_, _, _)
ReleaseEach(ts, q, via) ==
    IF q = {} THEN ts
    ELSE LET f == CHOOSE g \in q : TRUE
         IN  ReleaseEach(Release(ts, f, via), q \ {f}, via)

\* TaskSystem::Shutdown: delete poolAllocator; then state = ThreadState{},
\* which assigns member by member in the order of declaration: allocator
\* becomes the default TaskAllocator (the system allocator), then the
\* schedulers are destroyed, and ~TaskScheduler destroys the queued frames
\* while initialized is still true; initialized = false comes last.
SystemShutdown(crash) ==
    /\ ~taskSystem.crashed
    /\ taskSystem.initialized
    /\ LET gone == [taskSystem EXCEPT !.deleted = @ \cup {taskSystem.allocator},
                                      !.allocator = SystemAllocator]
           ts == ReleaseEach(gone, taskSystem.queued, SystemAllocator)
           bad == \E f \in taskSystem.queued : Mismatch(ts, f)
       IN  /\ crash => bad
           /\ FrameStep([ts EXCEPT !.initialized = FALSE, !.crashed = crash], bad)

\* thread_local ThreadState state, before Initialize; no frame yet.
InitFrames ==
    /\ taskSystem = [api |-> "frames", initialized |-> FALSE, inits |-> 0,
                     allocator |-> SystemAllocator, deleted |-> {},
                     allocated |-> {}, released |-> {},
                     origin |-> [f \in Mem |-> SystemAllocator],
                     via |-> [f \in Mem |-> SystemAllocator],
                     queued |-> {}, late |-> {}, crashed |-> FALSE]
    /\ threadContexts_ =
          [t \in Threads |->
              [internalIdStack |-> <<>>,
               schedulers |-> [i \in Schedulers |-> NewScheduler(t)]]]
    /\ allocator = NoAllocator
    /\ pool = NoPool
    /\ frame = [a \in Addr |-> NoFrame]
    /\ result_ = [a \in Addr |-> Empty]
    /\ continuation_ = [a \in Addr |-> NullHandle]
    /\ isForgotten_ = [a \in Addr |-> FALSE]
    /\ nextFrame = 1
    /\ stack = [t \in Threads |-> <<>>]
    /\ driver = [pc |-> "idle", idx |-> 1, sched |-> <<MainThread, 1>>,
                 forget |-> FALSE, task |-> NullHandle, held |-> {}, spawns |-> 0]
    /\ stopRequested = FALSE
    /\ ub = FALSE
    /\ updateCount = [id \in SchedulerIds |-> 0]
    /\ hist = [a \in Addr |-> NoHist]
    /\ drain = [sched |-> <<MainThread, 1>>, start |-> <<>>, resumed |-> <<>>,
                stamps |-> <<>>, stamp |-> 0]
    /\ schedSeq = 0
    /\ now = 0

NextFrames ==
    \/ SystemInitialize
    \/ \E f \in Mem, yields \in BOOLEAN : PromiseNew(f, yields)
    \/ \E f \in Mem : FrameUpdate(f)
    \/ \E f \in Mem, crash \in BOOLEAN : TaskDestroy(f, crash)
    \/ \E crash \in BOOLEAN : SystemShutdown(crash)

SpecFrames == InitFrames /\ [][NextFrames]_vars

\* C37: every frame is released through the allocator that allocated it,
\* while that allocator is alive, in whatever order Initialize, the
\* creation, completion and destruction of tasks and Shutdown come: also a
\* frame created before Initialize and destroyed after it, a frame created
\* while initialized and destroyed after Shutdown, and a frame still queued
\* when Shutdown destroys the schedulers and the default allocator.
C37_ReleasedThroughItsAllocator ==
    \A f \in taskSystem.released :
        /\ taskSystem.via[f] = taskSystem.origin[f]
        /\ f \notin taskSystem.late

----------------------------------------------------------------------------
\* WhenAny under a host that never stops updating its scheduler, and
\* coroutines that go on whenever they can.

NextWhenAnyOn == NextWhenAny \/ UpdateOn

SpecWhenAnyFair == Init /\ [][NextWhenAnyOn]_vars /\ WF_vars(NextWhenAnyOn)

\* Every task handed to WhenAny y has finished, with a value or a failure.
AllFinished(y) ==
    /\ frame[y].prog.type = "whenany"
    /\ TasksOf(y) # {}
    /\ \A b \in TasksOf(y) : IsReady(b)

\* C39: once every task passed to a WhenAny has finished, with a value
\* or with a failure, and the scheduler keeps being updated, the WhenAny
\* task eventually completes.
C39_WhenAnyTerminates ==
    \A y \in Addr : AllFinished(y) ~> IsReady(y)

----------------------------------------------------------------------------
\* The host runs tasks that await sub-tasks, forgets some of them, and
\* destroys the scheduler at some time.

TeardownProgs ==
    UserTasks \cup {Prog("awaiter", n, "-", "-", "-", <<q>>) :
                       n \in 0..MaxPre, q \in UserTasks}

NextTeardown ==
    \/ \E p \in TeardownProgs, fg \in BOOLEAN : Spawn(p, fg)
    \/ TaskReturned
    \/ \E f \in Addr : ForgetHeld(f)
    \/ \E f \in Addr : DropTask(f)
    \/ UpdateBegin
    \/ UpdateResume
    \/ UpdateEnd
    \/ \E t \in Threads, f \in Addr : UserTask(t, f)
    \/ \E t \in Threads, f \in Addr : AwaiterBody(t, f)
    \/ \E t \in Threads, f \in Addr : AwaiterCall(t, f)
    \/ \E t \in Threads, f \in Addr : Await(t, f)
    \/ \E t \in Threads, f \in Addr : AwaiterResume(t, f)
    \/ \E t \in Threads, f \in Addr : FinalSuspend(t, f)
    \/ DestroyScheduler
    \/ \E f \in Addr : TaskScopeExit(f)

SpecTeardown == Init /\ [][NextTeardown]_vars

\* Coroutine f is suspended in a co_await of a sub-task that did a
\* co_yield and has not completed.
AwaitsQueued(f) ==
    \E s \in Addr : /\ Created(s)
                     /\ continuation_[s] = f
                     /\ ~IsReady(s)
                     /\ hist[s].stamp > 0

\* C40: once the scheduler has been destroyed, every forgotten task that
\* had not completed, one whose own handle was queued as well as one
\* suspended in a co_await of a queued sub-task, has had its frame
\* destroyed, exactly once.
C40_NoFrameLeaked ==
    driver.pc = "shutdown" =>
        \A f \in Addr :
            (/\ Created(f)
             /\ isForgotten_[f]
             /\ ~IsReady(f)
             /\ hist[f].stamp > 0 \/ AwaitsQueued(f)) =>
                /\ ~frame[f].alive
                /\ hist[f].destroyCount = 1

----------------------------------------------------------------------------
(***************************************************************************)
(* TaskScheduler's remote list, one atomic access at a time: threads that  *)
(* are not the owner in PushRemote, the owner in Update.                   *)
(***************************************************************************)
Nodes == 1..MaxNodes

NullNode == 0

NoNode == [next |-> NullNode, handle |-> 0, live |-> FALSE]

\* The handles of the list that starts at node n, first node first.
RECURSIVE ListFrom(_, _, _)
ListFrom(node, n, fuel) ==
    IF n = NullNode \/ fuel = 0 THEN <<>>
    ELSE <<node[n].handle>> \o ListFrom(node, node[n].next, fuel - 1)

\* The nodes of the list that starts at node n.
RECURSIVE NodesFrom(_, _, _)
NodesFrom(node, n, fuel) ==
    IF n = NullNode \/ fuel = 0 THEN {}
    ELSE {n} \cup NodesFrom(node, node[n].next, fuel - 1)

InitRemote ==
    /\ pool = [api |-> "remote",
               remoteHead_ |-> NullNode,
               node |-> [n \in Nodes |-> NoNode],
               handles_ |-> <<>>,
               updateHandles_ |-> <<>>,
               pusher |-> [c \in Callers |->
                             [pc |-> "idle", node |-> NullNode,
                              oldHead |-> NullNode]],
               owner |-> [pc |-> "idle", head |-> NullNode, idx |-> 1],
               passed |-> {},
               pushed |-> {},
               due |-> {},
               resumes |-> [h \in Handles |-> 0]]
    /\ threadContexts_ =
          [t \in Threads |->
              [internalIdStack |-> <<>>,
               schedulers |-> [i \in Schedulers |-> NewScheduler(t)]]]
    /\ taskSystem = NoTaskSystem
    /\ frame = [a \in Addr |-> NoFrame]
    /\ result_ = [a \in Addr |-> Empty]
    /\ continuation_ = [a \in Addr |-> NullHandle]
    /\ isForgotten_ = [a \in Addr |-> FALSE]
    /\ nextFrame = 1
    /\ stack = [t \in Threads |-> <<>>]
    /\ driver = [pc |-> "idle", idx |-> 1, sched |-> <<MainThread, 1>>,
                 forget |-> FALSE, task |-> NullHandle, held |-> {}, spawns |-> 0]
    /\ stopRequested = FALSE
    /\ ub = FALSE
    /\ updateCount = [id \in SchedulerIds |-> 0]
    /\ hist = [a \in Addr |-> NoHist]
    /\ drain = [sched |-> <<MainThread, 1>>, start |-> <<>>, resumed |-> <<>>,
                stamps |-> <<>>, stamp |-> 0]
    /\ schedSeq = 0
    /\ now = 0
    /\ allocator = NoAllocator

\* PushRemote: new RemoteNode{nullptr, handle}, at any free address.
PushRemoteNew(c, h, n) ==
    /\ pool.pusher[c].pc = "idle"
    /\ h \in Handles \ pool.passed
    /\ ~pool.node[n].live
    /\ PoolStep([pool EXCEPT
          !.node[n] = [next |-> NullNode, handle |-> h, live |-> TRUE],
          !.pusher[c] = [pc |-> "load", node |-> n, oldHead |-> NullNode],
          !.passed = @ \cup {h}])

\* oldHead = remoteHead_.load(relaxed)
PushRemoteLoad(c) ==
    /\ pool.pusher[c].pc = "load"
    /\ PoolStep([pool EXCEPT !.pusher[c].oldHead = pool.remoteHead_,
                             !.pusher[c].pc = "link"])

\* node->next = oldHead
PushRemoteLink(c) ==
    /\ pool.pusher[c].pc = "link"
    /\ PoolStep([pool EXCEPT
          !.node[pool.pusher[c].node].next = pool.pusher[c].oldHead,
          !.pusher[c].pc = "cas"])

\* A store in place of the compare-exchange.
CompareExchange_Store(head, expected, spurious) == TRUE

\* compare_exchange_weak succeeds only when the head is the expected one,
\* and may fail even then.
CompareExchange(head, expected, spurious) == head = expected /\ ~spurious

\* remoteHead_.compare_exchange_weak(oldHead, node): PushRemote returns
\* when it succeeds; when it fails oldHead is the head it found.
PushRemoteCas(c, spurious) ==
    /\ pool.pusher[c].pc = "cas"
    /\ LET me == pool.pusher[c]
       IN  IF CompareExchange(pool.remoteHead_, me.oldHead, spurious)
           THEN PoolStep([pool EXCEPT
                   !.remoteHead_ = me.node,
                   !.pusher[c] = [pc |-> "idle", node |-> NullNode,
                                  oldHead |-> NullNode],
                   !.pushed = @ \cup {pool.node[me.node].handle}])
           ELSE PoolStep([pool EXCEPT !.pusher[c].oldHead = pool.remoteHead_,
                                      !.pusher[c].pc = "link"])

\* Update() begins, CollectRemote: head = remoteHead_.exchange(nullptr).
\* due: the handles whose PushRemote has returned, not resumed so far.
RemoteExchange ==
    /\ pool.owner.pc = "idle"
    /\ PoolStep([pool EXCEPT
          !.owner = [pc |-> "collect", head |-> pool.remoteHead_, idx |-> 1],
          !.remoteHead_ = NullNode,
          !.due = {h \in pool.pushed : pool.resumes[h] = 0}])

\* CollectRemote, one turn of its loop: the node's handle goes to
\* handles_ and the node is deleted; a deleted node reads as anything.
RemoteCollect ==
    /\ pool.owner.pc = "collect"
    /\ pool.owner.head # NullNode
    /\ LET current == pool.owner.head
       IN  /\ pool' = [pool EXCEPT
                 !.owner.head = pool.node[current].next,
                 !.handles_ = Append(@, pool.node[current].handle),
                 !.node[current] = NoNode]
           /\ ub' = (ub \/ ~pool.node[current].live)
    /\ UNCHANGED <<threadContexts_, frame, result_, continuation_, isForgotten_,
                   nextFrame, stack, driver, stopRequested, updateCount, hist,
                   drain, schedSeq, now, taskSystem, allocator>>

\* Update(): std::swap(updateHandles_, handles_)
RemoteSwap ==
    /\ pool.owner.pc = "collect"
    /\ pool.owner.head = NullNode
    /\ PoolStep([pool EXCEPT !.handles_ = pool.updateHandles_,
                             !.updateHandles_ = pool.handles_,
                             !.owner.pc = "resume",
                             !.owner.idx = 1])

\* Update(), one turn of its loop: handle.resume()
RemoteResume ==
    /\ pool.owner.pc = "resume"
    /\ pool.owner.idx <= Len(pool.updateHandles_)
    /\ PoolStep([pool EXCEPT
          !.resumes[pool.updateHandles_[pool.owner.idx]] = @ + 1,
          !.owner.idx = @ + 1])

\* Update(): updateHandles_.clear(), and Update returns.
RemoteClear ==
    /\ pool.owner.pc = "resume"
    /\ pool.owner.idx > Len(pool.updateHandles_)
    /\ PoolStep([pool EXCEPT !.updateHandles_ = <<>>,
                             !.owner.pc = "idle"])

NextRemote ==
    \/ \E c \in Callers, h \in Handles, n \in Nodes : PushRemoteNew(c, h, n)
    \/ \E c \in Callers : PushRemoteLoad(c)
    \/ \E c \in Callers : PushRemoteLink(c)
    \/ \E c \in Callers, spurious \in BOOLEAN : PushRemoteCas(c, spurious)
    \/ RemoteExchange
    \/ RemoteCollect
    \/ RemoteSwap
    \/ RemoteResume
    \/ RemoteClear

SpecRemote == InitRemote /\ [][NextRemote]_vars

\* The handles the scheduler holds and has yet to resume, in the order
\* of the places it holds them in.
RemoteHeld ==
    ListFrom(pool.node, pool.remoteHead_, MaxNodes)
    \o (IF pool.owner.pc = "collect"
        THEN ListFrom(pool.node, pool.owner.head, MaxNodes) ELSE <<>>)
    \o pool.handles_
    \o (IF pool.owner.pc = "resume"
        THEN SubSeq(pool.updateHandles_, pool.owner.idx, Len(pool.updateHandles_))
        ELSE pool.updateHandles_)

\* C31: whatever the threads that push and the owner's Update() calls do
\* at the same time, a handle whose PushRemote has returned is either held
\* by the scheduler once and not resumed so far, or resumed once and held
\* no more; the nodes of the list are live; and when an Update() returns,
\* each handle whose PushRemote had returned when it began is resumed.
C31_RemotePushesAllResumedOnce ==
    /\ \A h \in Handles :
          LET held == Cardinality({i \in DOMAIN RemoteHeld : RemoteHeld[i] = h})
          IN  /\ pool.resumes[h] + held <= 1
              /\ h \in pool.pushed => pool.resumes[h] + held = 1
    /\ ~ub
    /\ \A n \in NodesFrom(pool.node, pool.remoteHead_, MaxNodes) : pool.node[n].live
    /\ pool.owner.pc = "idle" => \A h \in pool.due : pool.resumes[h] = 1

\* An Update() has returned that began after two pushes had returned and
\* while a third was on its way, which went in while it ran.
C31_Witness ==
    /\ pool.owner.pc = "idle"
    /\ Cardinality(pool.due) >= 2
    /\ \E h \in pool.pushed \ pool.due : pool.resumes[h] = 0

----------------------------------------------------------------------------
(***************************************************************************)
(* ThreadPool's constructor and the start of its workers.  initMutex is    *)
(* locked or not; a thread waiting on a condition variable goes on when    *)
(* it is notified, or for no reason.                                        *)
(***************************************************************************)
\* TaskSchedulerId{}: the id a WorkerContext starts with.
NoSchedulerId == <<<<"none", 0>>, 0>>

\* The id CreateScheduler(workers_[w].get_id(), n) returns.
CreatedId(w) == <<WorkerThread(w), 1>>

InitBringUp ==
    /\ pool = [api |-> "bringup",
               waitingWorkers |-> 0,
               initMutex |-> FALSE,
               ready |-> FALSE,
               schedulerId |-> [w \in Workers |-> NoSchedulerId],
               ctor |-> [pc |-> "spawn", i |-> 0, notified |-> FALSE],
               worker |-> [w \in Workers |->
                             [pc |-> "unborn", notified |-> FALSE,
                              schedulerId |-> NoSchedulerId]],
               reported |-> {},
               reportedAtCreate |-> {}]
    /\ threadContexts_ =
          [t \in Threads |->
              [internalIdStack |-> <<>>,
               schedulers |-> [i \in Schedulers |-> NewScheduler(t)]]]
    /\ taskSystem = NoTaskSystem
    /\ frame = [a \in Addr |-> NoFrame]
    /\ result_ = [a \in Addr |-> Empty]
    /\ continuation_ = [a \in Addr |-> NullHandle]
    /\ isForgotten_ = [a \in Addr |-> FALSE]
    /\ nextFrame = 1
    /\ stack = [t \in Threads |-> <<>>]
    /\ driver = [pc |-> "idle", idx |-> 1, sched |-> <<MainThread, 1>>,
                 forget |-> FALSE, task |-> NullHandle, held |-> {}, spawns |-> 0]
    /\ stopRequested = FALSE
    /\ ub = FALSE
    /\ updateCount = [id \in SchedulerIds |-> 0]
    /\ hist = [a \in Addr |-> NoHist]
    /\ drain = [sched |-> <<MainThread, 1>>, start |-> <<>>, resumed |-> <<>>,
                stamps |-> <<>>, stamp |-> 0]
    /\ schedSeq = 0
    /\ now = 0
    /\ allocator = NoAllocator

\* workers_.emplace_back(lambda): the thread of worker i starts.
CtorSpawn ==
    /\ pool.ctor.pc = "spawn"
    /\ IF pool.ctor.i < threadCount
       THEN PoolStep([pool EXCEPT !.worker[pool.ctor.i].pc = "lock",
                                  !.ctor.i = @ + 1])
       ELSE PoolStep([pool EXCEPT !.ctor.pc = "lock"])

\* std::unique_lock lock(initMutex), and the lock a wait takes again.
CtorLock ==
    /\ pool.ctor.pc = "lock"
    /\ ~pool.initMutex
    /\ PoolStep([pool EXCEPT !.initMutex = TRUE, !.ctor.pc = "check"])

\* The predicate of workerReadyCv.wait
ReadyPredicate(waitingWorkers) == waitingWorkers = threadCount

\* workerReadyCv.wait(lock, pred): on with the lock held when the
\* predicate holds, else the lock is released and the thread blocks.
CtorWait ==
    /\ pool.ctor.pc = "check"
    /\ IF ReadyPredicate(pool.waitingWorkers)
       THEN PoolStep([pool EXCEPT !.ctor.pc = "create", !.ctor.i = 0,
                                  !.reportedAtCreate = pool.reported])
       ELSE PoolStep([pool EXCEPT !.initMutex = FALSE,
                                  !.ctor.pc = "blocked",
                                  !.ctor.notified = FALSE])

\* The wait ends: by a notify_one, or spuriously.
CtorWake(spurious) ==
    /\ pool.ctor.pc = "blocked"
    /\ IF spurious THEN ~pool.ctor.notified ELSE pool.ctor.notified
    /\ PoolStep([pool EXCEPT !.ctor.pc = "lock"])

\* workerContexts_[i]->schedulerId = CreateScheduler(workerId, n), each i
CtorCreate ==
    /\ pool.ctor.pc = "create"
    /\ IF pool.ctor.i < threadCount
       THEN PoolStep([pool EXCEPT
               !.schedulerId[pool.ctor.i] = CreatedId(pool.ctor.i),
               !.ctor.i = @ + 1])
       ELSE PoolStep([pool EXCEPT !.ctor.pc = "store"])

\* waitingWorkers.store(0); ready = true; and the lock's scope ends.
CtorReady ==
    \/ /\ pool.ctor.pc = "store"
       /\ PoolStep([pool EXCEPT !.waitingWorkers = 0, !.ctor.pc = "ready"])
    \/ /\ pool.ctor.pc = "ready"
       /\ PoolStep([pool EXCEPT !.ready = TRUE, !.ctor.pc = "unlock"])
    \/ /\ pool.ctor.pc = "unlock"
       /\ PoolStep([pool EXCEPT !.initMutex = FALSE, !.ctor.pc = "notify"])

\* startCv.notify_all()
CtorNotifyAll ==
    /\ pool.ctor.pc = "notify"
    /\ PoolStep([pool EXCEPT
          !.worker = [w \in Workers |->
                        IF @[w].pc = "blocked"
                        THEN [@[w] EXCEPT !.notified = TRUE] ELSE @[w]],
          !.ctor.pc = "spin"])

\* while (waitingWorkers.load() < threadCount) yield(); the constructor
\* returns and its locals are gone.
CtorSpin ==
    /\ pool.ctor.pc = "spin"
    /\ pool.waitingWorkers >= threadCount
    /\ PoolStep([pool EXCEPT !.ctor.pc = "done"])

\* std::unique_lock lock(initMutex), and the lock a wait takes again.
StartLock(w) ==
    /\ pool.worker[w].pc \in {"lock", "relock"}
    /\ ~pool.initMutex
    /\ PoolStep([pool EXCEPT
          !.initMutex = TRUE,
          !.worker[w].pc = IF @ = "lock" THEN "add" ELSE "check"])

\* waitingWorkers.fetch_add(1), with the lock held
StartReport(w) ==
    /\ pool.worker[w].pc = "add"
    /\ PoolStep([pool EXCEPT !.waitingWorkers = @ + 1,
                             !.reported = @ \cup {w},
                             !.worker[w].pc = "notify"])

\* workerReadyCv.notify_one()
StartNotify(w) ==
    /\ pool.worker[w].pc = "notify"
    /\ PoolStep([pool EXCEPT
          !.ctor.notified = @ \/ pool.ctor.pc = "blocked",
          !.worker[w].pc = "check"])

\* The workers go on at once.
StartPredicate_Open(ready) == TRUE

\* The predicate of startCv.wait
StartPredicate(ready) == ready

\* startCv.wait(lock, pred): on when the predicate holds, and the
\* lock's scope ends; else the lock is released and the thread blocks.
StartWait(w) ==
    /\ pool.worker[w].pc = "check"
    /\ IF StartPredicate(pool.ready)
       THEN PoolStep([pool EXCEPT !.initMutex = FALSE,
                                  !.worker[w].pc = "passed"])
       ELSE PoolStep([pool EXCEPT !.initMutex = FALSE,
                                  !.worker[w].pc = "blocked",
                                  !.worker[w].notified = FALSE])

\* The wait ends: by the notify_all, or spuriously.
StartWake(w, spurious) ==
    /\ pool.worker[w].pc = "blocked"
    /\ IF spurious THEN ~pool.worker[w].notified ELSE pool.worker[w].notified
    /\ PoolStep([pool EXCEPT !.worker[w].pc = "relock"])

\* waitingWorkers.fetch_add(1), past the barrier
StartPassed(w) ==
    /\ pool.worker[w].pc = "passed"
    /\ PoolStep([pool EXCEPT !.waitingWorkers = @ + 1,
                             !.worker[w].pc = "main"])

\* WorkerMain(i): auto schedulerId = context.schedulerId, and the loop.
\* A read while the constructor writes the ids is a data race.
WorkerMainBegin(w) ==
    /\ pool.worker[w].pc = "main"
    /\ pool' = [pool EXCEPT !.worker[w].schedulerId = pool.schedulerId[w],
                            !.worker[w].pc = "loop"]
    /\ ub' = (ub \/ pool.ctor.pc = "create")
    /\ UNCHANGED <<threadContexts_, frame, result_, continuation_, isForgotten_,
                   nextFrame, stack, driver, stopRequested, updateCount, hist,
                   drain, schedSeq, now, taskSystem, allocator>>

\* The steps of the constructing thread, and those of worker w, that
\* the thread takes when it can.
CtorStep ==
    \/ CtorSpawn
    \/ CtorLock
    \/ CtorWait
    \/ CtorWake(FALSE)
    \/ CtorCreate
    \/ CtorReady
    \/ CtorNotifyAll
    \/ CtorSpin

StartStep(w) ==
    \/ StartLock(w)
    \/ StartReport(w)
    \/ StartNotify(w)
    \/ StartWait(w)
    \/ StartWake(w, FALSE)
    \/ StartPassed(w)
    \/ WorkerMainBegin(w)

NextBringUp ==
    \/ CtorStep
    \/ CtorWake(TRUE)
    \/ \E w \in Workers : StartStep(w)
    \/ \E w \in Workers : StartWake(w, TRUE)

SpecBringUp == InitBringUp /\ [][NextBringUp]_vars

\* Each thread goes on when it can go on again and again; a mutex that
\* is free again and again is given to each thread that asks for it.
SpecBringUpFair ==
    /\ SpecBringUp
    /\ SF_vars(CtorStep)
    /\ \A w \in Workers : SF_vars(StartStep(w))

\* Worker w is past startCv.wait.
PastBarrier(w) == pool.worker[w].pc \in {"passed", "main", "loop"}

\* C34: a worker past the start barrier finds the scheduler ids of all
\* workers created and stored, and its main loop has its own; the ids are
\* created after all the workers have reported ready; the constructor
\* returns, and when it has, each worker has passed the barrier and added
\* itself to the count again.
C34_BringUpTwoPhase ==
    /\ [](/\ ~ub
          /\ \A w \in Workers :
                /\ PastBarrier(w) =>
                      \A v \in Workers : pool.schedulerId[v] = CreatedId(v)
                /\ pool.worker[w].pc = "loop" =>
                      pool.worker[w].schedulerId = CreatedId(w)
                /\ pool.schedulerId[w] # NoSchedulerId =>
                      pool.reportedAtCreate = Workers
          /\ pool.ctor.pc = "done" =>
                \A w \in Workers : pool.worker[w].pc \in {"main", "loop"})
    /\ <>(pool.ctor.pc = "done")

\* The constructor has returned after it had to block for the workers,
\* and the workers for it; all are in their main loops.
C34_Witness ==
    /\ pool.ctor.pc = "done"
    /\ pool.ctor.notified
    /\ \A w \in Workers : pool.worker[w].pc = "loop" /\ pool.worker[w].notified

----------------------------------------------------------------------------
(***************************************************************************)
(* A task on the main thread awaits a task that switches to the thread     *)
(* pool and ends there.  The promise's result_ and continuation_ are plain *)
(* members: the main thread and the worker reach them one access at a      *)
(* time, in any order, and a read that races with a write finds the old    *)
(* value or the new one.                                                    *)
(***************************************************************************)
\* Outer() { co_await Inner(); }  Inner() { co_await SwitchToThreadPool(); }
Pairs == Callers

Outer(p) == 2 * p - 1

Inner(p) == 2 * p

InitHandoff ==
    /\ pool = [api |-> "handoff",
               outer |-> [p \in Pairs |-> [pc |-> "new", runs |-> 0, on |-> "none"]],
               inner |-> [p \in Pairs |-> "new"]]
    /\ threadContexts_ =
          [t \in Threads |->
              [internalIdStack |-> <<>>,
               schedulers |-> [i \in Schedulers |-> NewScheduler(t)]]]
    /\ taskSystem = NoTaskSystem
    /\ frame = [a \in Addr |-> NoFrame]
    /\ result_ = [a \in Addr |-> Empty]
    /\ continuation_ = [a \in Addr |-> NullHandle]
    /\ isForgotten_ = [a \in Addr |-> FALSE]
    /\ nextFrame = 1
    /\ stack = [t \in Threads |-> <<>>]
    /\ driver = [pc |-> "idle", idx |-> 1, sched |-> <<MainThread, 1>>,
                 forget |-> FALSE, task |-> NullHandle, held |-> {}, spawns |-> 0]
    /\ stopRequested = FALSE
    /\ ub = FALSE
    /\ updateCount = [id \in SchedulerIds |-> 0]
    /\ hist = [a \in Addr |-> NoHist]
    /\ drain = [sched |-> <<MainThread, 1>>, start |-> <<>>, resumed |-> <<>>,
                stamps |-> <<>>, stamp |-> 0]
    /\ schedSeq = 0
    /\ now = 0
    /\ allocator = NoAllocator

\* What a handoff step leaves alone.
HandoffStep(p, r, c, u) ==
    /\ pool' = p
    /\ result_' = r
    /\ continuation_' = c
    /\ ub' = u
    /\ UNCHANGED <<threadContexts_, frame, isForgotten_, nextFrame, stack, driver,
                   stopRequested, updateCount, hist, drain, schedSeq, now,
                   taskSystem, allocator>>

\* The main thread is inside no coroutine.
MainFree == \A p \in Pairs : pool.outer[p].pc \in {"new", "left"}

\* Outer calls Inner(), which runs on the main thread up to
\* SwitchToThreadPoolAwaiter::await_suspend: its handle goes to the pool.
OuterCall(p) ==
    /\ MainFree
    /\ pool.outer[p].pc = "new"
    /\ HandoffStep([pool EXCEPT !.outer[p].pc = "check", !.inner[p] = "queued"],
                   result_, continuation_, ub)

\* A worker's Update() resumes Inner.
InnerResume(p) ==
    /\ pool.inner[p] = "queued"
    /\ HandoffStep([pool EXCEPT !.inner[p] = "run"], result_, continuation_, ub)

\* Inner's co_return on the worker: return_value stores result_.  The
\* store races with Outer's await_ready unless that is over.
InnerReturn(p) ==
    /\ pool.inner[p] = "run"
    /\ HandoffStep([pool EXCEPT !.inner[p] = "final"],
                   [result_ EXCEPT ![Inner(p)] = return_value(<<>>)],
                   continuation_,
                   ub \/ pool.outer[p].pc = "check")

\* Inner's final_suspend on the worker: GetContinuation(), and the
\* continuation, if it finds one, runs on the worker.  stale: the read
\* races with Outer's await_suspend and misses its store.
InnerFinal(p, stale) ==
    /\ pool.inner[p] = "final"
    /\ stale => GetContinuation(Inner(p)) # NullHandle
    /\ LET found == IF stale THEN NullHandle ELSE GetContinuation(Inner(p))
       IN  HandoffStep(
              [pool EXCEPT
                  !.inner[p] = "done",
                  !.outer[p] = IF found = NullHandle THEN @
                               ELSE [@ EXCEPT !.runs = @ + 1, !.on = "worker"]],
              result_, continuation_,
              ub \/ pool.outer[p].pc \in {"check", "suspend"}
                 \/ GetContinuation(Inner(p)) # NullHandle)

\* Awaiter::await_ready on the main thread: when it finds a result Outer
\* goes on at once.  stale: the read races with Inner's return_value and
\* misses its store.
AwaitReady(p, stale) ==
    /\ pool.outer[p].pc = "check"
    /\ stale => await_ready(Inner(p))
    /\ HandoffStep(
          [pool EXCEPT
              !.outer[p] = IF await_ready(Inner(p)) /\ ~stale
                           THEN [pc |-> "left", runs |-> @.runs + 1, on |-> "main"]
                           ELSE [@ EXCEPT !.pc = "suspend"]],
          result_, continuation_,
          ub \/ pool.inner[p] \in {"final", "done"})

\* Awaiter::await_suspend on the main thread: SetContinuation(handle).
AwaitSuspend(p) ==
    /\ pool.outer[p].pc = "suspend"
    /\ HandoffStep([pool EXCEPT !.outer[p].pc = "return"],
                   result_, SetContinuation(Inner(p), Outer(p)),
                   ub \/ pool.inner[p] \in {"final", "done"})

\* await_suspend returns, and the main thread leaves Outer suspended.
AwaitReturn(p) ==
    /\ pool.outer[p].pc = "return"
    /\ HandoffStep([pool EXCEPT !.outer[p].pc = "left"],
                   result_, continuation_, ub)

NextHandoff ==
    \/ \E p \in Pairs : OuterCall(p)
    \/ \E p \in Pairs : InnerResume(p)
    \/ \E p \in Pairs : InnerReturn(p)
    \/ \E p \in Pairs, stale \in BOOLEAN : InnerFinal(p, stale)
    \/ \E p \in Pairs, stale \in BOOLEAN : AwaitReady(p, stale)
    \/ \E p \in Pairs : AwaitSuspend(p)
    \/ \E p \in Pairs : AwaitReturn(p)

SpecHandoff == InitHandoff /\ [][NextHandoff]_vars

\* C38: a task that awaits a sub-task ending on a worker thread goes on
\* once: never twice, and when the sub-task is over and the main thread
\* has left the co_await, the awaiting task has gone on, either at once
\* on the main thread or resumed by the sub-task on the worker.
C38_AwaiterResumedOnce ==
    \A p \in Pairs :
        /\ pool.outer[p].runs <= 1
        /\ (pool.inner[p] = "done" /\ pool.outer[p].pc = "left") =>
              pool.outer[p].runs = 1

====
